---- MODULE Spec2Model ----
(***************************************************************************)
(* Model of the inventory consumption engine of ananda-hostal-api:         *)
(*   - consumeInventoryForMeal / setupCronJobs / checkLowStockItems        *)
(*     (src/utils/cronJobs.js)                                             *)
(*   - recordInventoryUsage (src/controllers/inventoryUsage.controller.js) *)
(* Every `await` of an async function is one step: the store operation     *)
(* takes effect and the code up to the next `await` runs on local state.   *)
(* Quantities are exact decimals held as integers in tenths of a          *)
(* unit, calendar days are integers, weekday = day modulo 7.               *)
(***************************************************************************)
EXTENDS Integers, Sequences, FiniteSets, Bags, TLC

\* ------------------------------------------------------------------ bounds
\* last calendar day of the window; day 1 is a Monday
MaxDay == 2
\* operations (scheduled invocations, requests, scans) started in a behaviour
MaxOps == 2
\* largest attendance count and plan quantity given to the quantity formula
MaxAttendance == 25
MaxBase == 5
\* const forStudents = item.forStudents || 10: the default group size; stock
\* and deducted quantities are held in 1/DefaultForStudents of a unit
DefaultForStudents == 10

\* ------------------------------------------------------- model universe
Runs == <<"r1", "r2", "r3">>
RunIds == {Runs[i] : i \in 1..Len(Runs)}
Reqs == <<"m1", "m2">>
ReqIds == {Reqs[i] : i \in 1..Len(Reqs)}
Apis == <<"h1", "h2">>
ApiIds == {Apis[i] : i \in 1..Len(Apis)}
Mons == <<"k1", "k2">>
MonIds == {Mons[i] : i \in 1..Len(Mons)}
ItemOrder == <<"Rice", "Dhal">>
UserOrder == <<"u1", "u2", "u3">>
UserIds == {UserOrder[i] : i \in 1..Len(UserOrder)}
MealTypes == {"breakfast", "lunch", "dinner"}
Null == -1

dayNames ==
  <<"Sunday", "Monday", "Tuesday", "Wednesday", "Thursday", "Friday", "Saturday">>

\* Date.getDay() of a calendar day
getDay(d) == d % 7

NullPlan ==
  [id |-> 0, day |-> "none", breakfastInventory |-> <<>>,
   lunchInventory |-> <<>>, dinnerInventory |-> <<>>]

NullDoc == [id |-> "none", currentStock |-> 0]

\* ------------------------------------------------------------ scenarios
RoleConfigs ==
  { [u1 |-> "admin", u2 |-> "admin", u3 |-> "kitchen"],
    [u1 |-> "kitchen", u2 |-> "warden", u3 |-> "warden"] }

PlanConfigs ==
  { { [id |-> 1, day |-> "Monday",
       breakfastInventory |-> << [inventoryItemId |-> "Rice", quantity |-> 2],
                                 [inventoryItemId |-> "Dhal", quantity |-> 1] >>,
       lunchInventory |-> << [inventoryItemId |-> "Gone", quantity |-> 1],
                             [inventoryItemId |-> "Rice", quantity |-> 1] >>,
       dinnerInventory |-> <<>>] },
    { [id |-> 1, day |-> "Monday",
       breakfastInventory |-> << [inventoryItemId |-> "Rice", quantity |-> 1] >>,
       lunchInventory |-> <<>>,
       dinnerInventory |-> << [inventoryItemId |-> "Dhal", quantity |-> 1],
                              [inventoryItemId |-> "Rice", quantity |-> 3] >>] } }

\* an AttendanceSession document
Session(id, sessionType, markedAt, presentCount, absentCount) ==
  [id |-> id, sessionType |-> sessionType, markedAt |-> markedAt,
   presentCount |-> presentCount, absentCount |-> absentCount,
   totalStudents |-> presentCount + absentCount]

SessionConfigs ==
  { { Session(1, "evening", 0, 3, 2), Session(2, "morning", 0, 4, 1),
      Session(3, "morning", 1, 5, 0), Session(4, "evening", 1, 2, 3) },
    { Session(1, "evening", 0, 0, 5), Session(3, "morning", 1, 4, 1) } }

StockConfigs ==
  { [Rice |-> [currentStock |-> 10, minimumStock |-> 4],
     Dhal |-> [currentStock |-> 5, minimumStock |-> 2]],
    [Rice |-> [currentStock |-> 3, minimumStock |-> 4],
     Dhal |-> [currentStock |-> 3, minimumStock |-> 0]] }

\* request bodies of POST /api/inventory-usage
Line(id, q, n) ==
  [inventoryItemId |-> id, recordedQuantity |-> q, recordedForStudents |-> n]

Bodies ==
  { [date |-> 1, mealType |-> "breakfast", items |-> <<Line("Rice", 1, 10)>>],
    [date |-> 1, mealType |-> "breakfast",
     items |-> <<Line("Rice", 2, 10), Line("Rice", 1, 10)>>],
    [date |-> 1, mealType |-> "dinner",
     items |-> <<Line("Dhal", 1, 10), Line("Gone", 1, 10)>>],
    [date |-> 1, mealType |-> "lunch", items |-> <<Line("Dhal", -1, 10)>>],
    [date |-> 2, mealType |-> "breakfast",
     items |-> <<Line("Rice", 1, 5), Line("Dhal", 1, 1), Line("Rice", 1, 0)>>],
    [date |-> 1, mealType |-> "snack", items |-> <<Line("Rice", 1, 10)>>],
    [date |-> 1, mealType |-> "lunch", items |-> <<>>] }

VARIABLES
  today,           \* the calendar day of the wall clock (new Date())
  role,            \* User collection: user id -> role
  mealPlans,       \* MealPlan collection
  sessions,        \* AttendanceSession collection
  inventoryItems,  \* InventoryItem collection: id -> [currentStock, minimumStock]
  usage,           \* InventoryUsage collection, in creation order
  notifications,   \* Notification collection, a bag of documents
  cron,            \* the invocations of consumeInventoryForMeal
  req,             \* the requests handled by recordInventoryUsage
  mon,             \* the invocations of checkLowStockItems
  api,             \* the requests handled by the attendance and meal plan
                   \* controllers
  attendanceRecords, \* AttendanceRecord collection
  calc             \* one evaluation of the quantity formula

vars ==
  <<today, role, mealPlans, sessions, inventoryItems, usage,
    notifications, cron, req, mon, api, attendanceRecords, calc>>

\* operations started so far
Started ==
  Cardinality({r \in RunIds : cron[r].pc # "Idle"})
  + Cardinality({m \in ReqIds : req[m].pc # "Idle"})
  + Cardinality({k \in MonIds : mon[k].pc # "Idle"})
  + Cardinality({h \in ApiIds : api[h].pc # "Idle"})

\* ---------------------------------------------------------------- store
\* AttendanceSession.findOne({sessionType, markedAt within the day of date})
SessionsOn(sessionType, date) ==
  {s \in sessions : s.sessionType = sessionType /\ s.markedAt = date}

\* a lookup that ignores the weekday
PlansForAnyDay(day) == mealPlans

\* MealPlan.findOne({ day })
PlansFor(day) == {p \in mealPlans : p.day = day}

\* User.find({ role: "admin" }) in store order
RECURSIVE UsersWithRole(_, _)
UsersWithRole(roles, i) ==
  IF i > Len(UserOrder) THEN <<>>
  ELSE (IF role[UserOrder[i]] \in roles THEN <<UserOrder[i]>> ELSE <<>>)
       \o UsersWithRole(roles, i + 1)

\* inventoryUsageSchema validation run by InventoryUsage.create
ItemValid(it) ==
  /\ it.recordedQuantity >= 0
  /\ it.recordedForStudents \in {1, 10}
  /\ it.actualQuantityDeducted >= 0

UsageValid(doc) ==
  /\ doc.mealType \in MealTypes
  /\ doc.attendanceCount >= 0
  /\ \A i \in 1..Len(doc.items) : ItemValid(doc.items[i])

\* a create that replaces the record of the same date and meal type
InventoryUsageUpsert(doc) ==
  IF \E i \in 1..Len(usage) :
       usage[i].date = doc.date /\ usage[i].mealType = doc.mealType
  THEN [i \in 1..Len(usage) |->
          IF usage[i].date = doc.date /\ usage[i].mealType = doc.mealType
          THEN doc ELSE usage[i]]
  ELSE Append(usage, doc)

\* InventoryUsage.create(doc): the collection with the new document
InventoryUsageCreate(doc) == Append(usage, doc)

\* --------------------------------------------------------- calculator
\* a formula that rounds down to whole units
quantityToConsumeFloor(attendanceCount, forStudents, baseQuantity) ==
  ((attendanceCount * baseQuantity) \div forStudents) * DefaultForStudents

\* (attendanceCount / forStudents) * baseQuantity, in tenths of a unit
quantityToConsume(attendanceCount, forStudents, baseQuantity) ==
  (attendanceCount * baseQuantity * DefaultForStudents) \div forStudents

\* the formula applied to one input, and to the same input with the
\* attendance doubled
IdleCalc ==
  [pc |-> "Idle", attendanceCount |-> 0, forStudents |-> 1,
   baseQuantity |-> 0, result |-> 0, doubled |-> 0]

CalcInputs ==
  [pc : {"Ready"}, attendanceCount : 0..MaxAttendance, forStudents : {1, 10},
   baseQuantity : 0..MaxBase, result : {0}, doubled : {0}]

CalcApply ==
  /\ calc.pc = "Ready"
  /\ calc' = [calc EXCEPT
       !.pc = "Done",
       !.result = quantityToConsume(calc.attendanceCount, calc.forStudents,
                                    calc.baseQuantity),
       !.doubled = quantityToConsume(2 * calc.attendanceCount,
                                     calc.forStudents, calc.baseQuantity)]
  /\ UNCHANGED <<today, role, mealPlans, sessions, inventoryItems, usage,
                 notifications, cron, req, mon, api, attendanceRecords>>

\* Number.prototype.toFixed(2) of a quantity held in tenths: hundredths
toFixed2(q) == q * 10

\* a default group size of one student
forStudentsOfOne(item) == 1

\* item.forStudents || 10 : the meal plan schema has no forStudents field
forStudentsOf(item) == DefaultForStudents

\* an attendance source that takes the same day for every meal
AttendanceSourceSameDay(mealType, date) ==
  [sessionType |-> "evening", date |-> date]

\* attendance source of a meal: [sessionType, date]
AttendanceSource(mealType, date) ==
  [sessionType |-> "evening",
   date |-> IF mealType \in {"breakfast", "lunch"} THEN date - 1 ELSE date]

\* ------------------------------------------------------ scheduled run
IdleRun ==
  [pc |-> "Idle", mealType |-> "none", dateObj |-> 0, dayName |-> "none",
   mealPlan |-> NullPlan, attendanceDate |-> 0,
   attendanceSessionType |-> "none", attendanceCount |-> Null,
   attendanceSession |-> 0, mealInventory |-> <<>>, systemUser |-> "none",
   idx |-> 0, inventoryItem |-> NullDoc, quantityToConsume |-> 0,
   errors |-> <<>>, usageItems |-> <<>>, adminUsers |-> <<>>, nidx |-> 0,
   consulted |-> {}, debited |-> <<>>, exit |-> "none"]

\* getAttendanceCount(sessionType, date): the results findOne can produce,
\* the presentCount of a matching session, or null when there is none
getAttendanceCount(sessionType, date) ==
  IF SessionsOn(sessionType, date) = {} THEN {Null}
  ELSE {s.presentCount : s \in SessionsOn(sessionType, date)}

\* a selection that takes the breakfast list for every meal
MealInventoryOfBreakfast(plan, mealType) == plan.breakfastInventory

\* the meal inventory of the plan for the meal type
MealInventoryOf(plan, mealType) ==
  IF mealType = "breakfast" THEN plan.breakfastInventory
  ELSE IF mealType = "lunch" THEN plan.lunchInventory
  ELSE plan.dinnerInventory

\* the lowest free invocation slots
FreeRuns == {i \in 1..Len(Runs) : cron[Runs[i]].pc = "Idle"}

StartedRun(mealType) ==
  [IdleRun EXCEPT !.pc = "PlanLookup", !.mealType = mealType,
                  !.dateObj = today, !.dayName = dayNames[getDay(today) + 1]]

\* cron.schedule(schedules.<meal>Consumption, ...) fires for one meal
CronMeal(mealType) ==
  /\ Started < MaxOps
  /\ FreeRuns # {}
  /\ LET i == CHOOSE k \in FreeRuns : \A j \in FreeRuns : k <= j
     IN cron' = [cron EXCEPT ![Runs[i]] = StartedRun(mealType)]
  /\ UNCHANGED <<calc, api, attendanceRecords, today, role, mealPlans, sessions, inventoryItems,
                 usage, notifications, req, mon>>

CronBreakfast == CronMeal("breakfast")
CronLunch == CronMeal("lunch")
CronDinner == CronMeal("dinner")

\* the legacy daily trigger of a deployment that sets
\* ENABLE_LEGACY_DAILY_CONSUMPTION: three invocations launched without
\* awaiting; a deployment that does not set it never takes this step
CronLegacyDaily ==
  /\ Started = 0
  /\ cron' = [cron EXCEPT ![Runs[1]] = StartedRun("breakfast"),
                          ![Runs[2]] = StartedRun("lunch"),
                          ![Runs[3]] = StartedRun("dinner")]
  /\ UNCHANGED <<calc, api, attendanceRecords, today, role, mealPlans, sessions, inventoryItems,
                 usage, notifications, req, mon>>

Finish(c, exit) == [c EXCEPT !.pc = "Done", !.exit = exit]

\* const mealPlan = await MealPlan.findOne({ day: dayName })
PlanLookup(r) ==
  /\ cron[r].pc = "PlanLookup"
  /\ LET c == cron[r]
         src == AttendanceSource(c.mealType, c.dateObj)
     IN IF PlansFor(c.dayName) = {}
        THEN cron' = [cron EXCEPT ![r] = Finish(c, "SkipNoPlan")]
        ELSE \E p \in PlansFor(c.dayName) :
               cron' = [cron EXCEPT ![r] =
                 [c EXCEPT !.pc = "AttendanceLookup", !.mealPlan = p,
                           !.attendanceDate = src.date,
                           !.attendanceSessionType = src.sessionType]]
  /\ UNCHANGED <<calc, api, attendanceRecords, today, role, mealPlans, sessions, inventoryItems,
                 usage, notifications, req, mon>>

\* a test that skips only when no session is found
NoAttendanceNullOnly(n) == n = Null

\* if (attendanceCount === null || attendanceCount === 0)
NoAttendance(n) == n = Null \/ n = 0

\* const attendanceCount = await getAttendanceCount(attendanceSessionType,
\*                                                  attendanceDate)
AttendanceLookup(r) ==
  /\ cron[r].pc = "AttendanceLookup"
  /\ LET c == cron[r]
         seen == [c EXCEPT !.consulted = @ \cup
                    {[sessionType |-> c.attendanceSessionType,
                      date |-> c.attendanceDate]}]
     IN \E n \in getAttendanceCount(c.attendanceSessionType, c.attendanceDate) :
          IF NoAttendance(n)
          THEN cron' = [cron EXCEPT ![r] =
                 Finish([seen EXCEPT !.attendanceCount = n], "SkipNoAttendance")]
          ELSE cron' = [cron EXCEPT ![r] =
                 [seen EXCEPT !.pc = "SessionRef", !.attendanceCount = n]]
  /\ UNCHANGED <<calc, api, attendanceRecords, today, role, mealPlans, sessions, inventoryItems,
                 usage, notifications, req, mon>>

\* const attendanceSession = await AttendanceSession.findOne(...); then the
\* meal inventory of the plan is selected
SessionRef(r) ==
  /\ cron[r].pc = "SessionRef"
  /\ LET c == cron[r]
         found == SessionsOn(c.attendanceSessionType, c.attendanceDate)
         inv == MealInventoryOf(c.mealPlan, c.mealType)
     IN \E sid \in (IF found = {} THEN {0} ELSE {s.id : s \in found}) :
          LET seen == [c EXCEPT !.attendanceSession = sid,
                                !.consulted = @ \cup
                                  {[sessionType |-> c.attendanceSessionType,
                                    date |-> c.attendanceDate]}]
          IN IF Len(inv) = 0
             THEN cron' = [cron EXCEPT ![r] = Finish(seen, "SkipEmpty")]
             ELSE cron' = [cron EXCEPT ![r] =
                    [seen EXCEPT !.pc = "SystemUser", !.mealInventory = inv]]
  /\ UNCHANGED <<calc, api, attendanceRecords, today, role, mealPlans, sessions, inventoryItems,
                 usage, notifications, req, mon>>

\* a lookup that goes on to the items without an admin user
SystemUserOptional(r) ==
  /\ cron[r].pc = "SystemUser"
  /\ LET c == cron[r]
         admins == UsersWithRole({"admin"}, 1)
     IN cron' = [cron EXCEPT ![r] =
          [c EXCEPT !.pc = "ItemFind", !.idx = 1,
                    !.systemUser = IF Len(admins) = 0 THEN "none"
                                   ELSE admins[1]]]
  /\ UNCHANGED <<calc, api, attendanceRecords, today, role, mealPlans,
                 sessions, inventoryItems, usage, notifications, req, mon>>

\* const systemUser = await User.findOne({ role: "admin" })
SystemUser(r) ==
  /\ cron[r].pc = "SystemUser"
  /\ LET c == cron[r]
         admins == UsersWithRole({"admin"}, 1)
     IN IF Len(admins) = 0
        THEN cron' = [cron EXCEPT ![r] = Finish(c, "SkipNoAdmin")]
        ELSE cron' = [cron EXCEPT ![r] =
               [c EXCEPT !.pc = "ItemFind", !.systemUser = admins[1],
                         !.idx = 1]]
  /\ UNCHANGED <<calc, api, attendanceRecords, today, role, mealPlans, sessions, inventoryItems,
                 usage, notifications, req, mon>>

\* a run that notifies whether or not it accumulated errors
AfterUsageAlways(c) == [c EXCEPT !.pc = "NotifyFind"]

\* what follows the usage record: if (errors.length > 0) notify the admins
AfterUsage(c) ==
  IF Len(c.errors) > 0 THEN [c EXCEPT !.pc = "NotifyFind"]
  ELSE Finish(c, "Done")

\* a loop that stops at the first item that accumulated an error
AfterItemAbort(c) ==
  IF c.idx < Len(c.mealInventory) /\ Len(c.errors) = 0
  THEN [c EXCEPT !.pc = "ItemFind", !.idx = @ + 1]
  ELSE IF Len(c.usageItems) > 0
       THEN [c EXCEPT !.pc = "RecordUsage", !.idx = @ + 1]
       ELSE AfterUsage([c EXCEPT !.idx = @ + 1])

\* a loop that writes the usage record as soon as one item was debited
AfterItemRecordEarly(c) ==
  IF Len(c.usageItems) > 0
  THEN [c EXCEPT !.pc = "RecordUsage", !.idx = @ + 1]
  ELSE IF c.idx < Len(c.mealInventory)
       THEN [c EXCEPT !.pc = "ItemFind", !.idx = @ + 1]
       ELSE AfterUsage([c EXCEPT !.idx = @ + 1])

\* what follows the last statement of the loop body for one plan item
AfterItem(c) ==
  IF c.idx < Len(c.mealInventory)
  THEN [c EXCEPT !.pc = "ItemFind", !.idx = @ + 1]
  ELSE IF Len(c.usageItems) > 0
       THEN [c EXCEPT !.pc = "RecordUsage", !.idx = @ + 1]
       ELSE AfterUsage([c EXCEPT !.idx = @ + 1])

NotFoundError(id) ==
  [kind |-> "not found", item |-> id, available |-> 0, required |-> 0,
   attendance |-> 0]

\* an error message that reports the required amount as the available one
InsufficientErrorSwapped(id, currentStock, required, attendanceCount) ==
  [kind |-> "Insufficient stock", item |-> id,
   available |-> toFixed2(required), required |-> toFixed2(required),
   attendance |-> attendanceCount]

InsufficientError(id, currentStock, required, attendanceCount) ==
  [kind |-> "Insufficient stock", item |-> id,
   available |-> toFixed2(currentStock), required |-> toFixed2(required),
   attendance |-> attendanceCount]

\* a stock test that never rejects
InsufficientNever(currentStock, required) == FALSE

\* the stock test: inventoryItem.currentStock < quantityToConsume
Insufficient(currentStock, required) == currentStock < required

\* const inventoryItem = await InventoryItem.findById(item.inventoryItemId),
\* the stock test, and the in-memory deduction before save()
ItemFind(r) ==
  /\ cron[r].pc = "ItemFind"
  /\ LET c == cron[r]
         item == c.mealInventory[c.idx]
         id == item.inventoryItemId
         q == quantityToConsume(c.attendanceCount, forStudentsOf(item),
                                item.quantity)
     IN IF id \notin DOMAIN inventoryItems
        THEN cron' = [cron EXCEPT ![r] =
               AfterItem([c EXCEPT !.errors = Append(@, NotFoundError(id))])]
        ELSE IF Insufficient(inventoryItems[id].currentStock, q)
        THEN cron' = [cron EXCEPT ![r] =
               AfterItem([c EXCEPT !.errors = Append(@,
                 InsufficientError(id, inventoryItems[id].currentStock, q,
                                   c.attendanceCount))])]
        ELSE cron' = [cron EXCEPT ![r] =
               [c EXCEPT !.pc = "ItemSave", !.quantityToConsume = q,
                         !.inventoryItem =
                           [id |-> id,
                            currentStock |->
                              inventoryItems[id].currentStock - q]]]
  /\ UNCHANGED <<calc, api, attendanceRecords, today, role, mealPlans, sessions, inventoryItems,
                 usage, notifications, req, mon>>

\* catch (error) of the loop body: errors.push("Error processing ...")
ProcessingError(id) ==
  [kind |-> "Error processing", item |-> id, available |-> 0, required |-> 0,
   attendance |-> 0]

\* InventoryItem.findById rejects: the catch of the loop body accumulates an
\* error and the loop goes on
ItemFindFails(r) ==
  /\ cron[r].pc = "ItemFind"
  /\ LET c == cron[r]
         id == c.mealInventory[c.idx].inventoryItemId
     IN cron' = [cron EXCEPT ![r] =
          AfterItem([c EXCEPT !.errors = Append(@, ProcessingError(id))])]
  /\ UNCHANGED <<today, role, mealPlans, sessions, inventoryItems, usage,
                 notifications, req, mon, api, attendanceRecords, calc>>

\* inventoryItem.save() rejects: nothing is written, the catch of the loop
\* body accumulates an error and the loop goes on
ItemSaveFails(r) ==
  /\ cron[r].pc = "ItemSave"
  /\ LET c == cron[r]
         id == c.mealInventory[c.idx].inventoryItemId
     IN cron' = [cron EXCEPT ![r] =
          AfterItem([c EXCEPT !.errors = Append(@, ProcessingError(id))])]
  /\ UNCHANGED <<today, role, mealPlans, sessions, inventoryItems, usage,
                 notifications, req, mon, api, attendanceRecords, calc>>

\* a line item that records the plan quantity as the deducted quantity
UsageItemBase(id, baseQuantity, forStudents, deducted) ==
  [inventoryItemId |-> id, recordedQuantity |-> baseQuantity,
   recordedForStudents |-> forStudents,
   actualQuantityDeducted |-> baseQuantity]

\* the usage line item prepared after a successful save
UsageItem(id, baseQuantity, forStudents, deducted) ==
  [inventoryItemId |-> id, recordedQuantity |-> baseQuantity,
   recordedForStudents |-> forStudents, actualQuantityDeducted |-> deducted]

\* await inventoryItem.save(): the document's currentStock is written
ItemSave(r) ==
  /\ cron[r].pc = "ItemSave"
  /\ LET c == cron[r]
         item == c.mealInventory[c.idx]
         id == c.inventoryItem.id
     IN /\ inventoryItems' = [inventoryItems EXCEPT
             ![id].currentStock = c.inventoryItem.currentStock]
        /\ cron' = [cron EXCEPT ![r] =
             AfterItem([c EXCEPT
               !.usageItems = Append(@, UsageItem(id, item.quantity,
                                forStudentsOf(item), c.quantityToConsume)),
               !.debited = Append(@, [item |-> id, line |-> c.idx,
                                      amount |-> c.quantityToConsume])])]
  /\ UNCHANGED <<calc, api, attendanceRecords, today, role, mealPlans, sessions, usage,
                 notifications, req, mon>>

\* await InventoryUsage.create({...}) inside its own try/catch
RecordUsage(r) ==
  /\ cron[r].pc = "RecordUsage"
  /\ LET c == cron[r]
         doc == [date |-> c.dateObj, mealType |-> c.mealType,
                 items |-> c.usageItems,
                 attendanceCount |-> c.attendanceCount,
                 attendanceSessionId |-> c.attendanceSession,
                 recordedBy |-> c.systemUser, op |-> r]
     IN /\ usage' = IF UsageValid(doc) THEN InventoryUsageCreate(doc)
                   ELSE usage
        /\ cron' = [cron EXCEPT ![r] = AfterUsage(c)]
  /\ UNCHANGED <<calc, api, attendanceRecords, today, role, mealPlans, sessions, inventoryItems,
                 notifications, req, mon>>

\* const adminUsers = await User.find({ role: "admin" })
NotifyFind(r) ==
  /\ cron[r].pc = "NotifyFind"
  /\ LET c == cron[r]
         admins == UsersWithRole({"admin"}, 1)
     IN IF Len(admins) = 0
        THEN cron' = [cron EXCEPT ![r] = Finish(c, "Done")]
        ELSE cron' = [cron EXCEPT ![r] =
               [c EXCEPT !.pc = "NotifyCreate", !.adminUsers = admins,
                         !.nidx = 1]]
  /\ UNCHANGED <<calc, api, attendanceRecords, today, role, mealPlans, sessions, inventoryItems,
                 usage, notifications, req, mon>>

\* await Notification.create({...}) for the next admin
NotifyCreate(r) ==
  /\ cron[r].pc = "NotifyCreate"
  /\ LET c == cron[r]
         n == [user |-> c.adminUsers[c.nidx], type |-> "alert",
               title |-> [kind |-> "Inventory Consumption Error",
                          subject |-> c.mealType, dayName |-> c.dayName],
               message |-> c.errors, read |-> FALSE, createdAt |-> today,
               op |-> r]
     IN /\ notifications' = notifications (+) SetToBag({n})
        /\ cron' = [cron EXCEPT ![r] =
             IF c.nidx < Len(c.adminUsers) THEN [c EXCEPT !.nidx = @ + 1]
             ELSE Finish([c EXCEPT !.nidx = @ + 1], "Done")]
  /\ UNCHANGED <<calc, api, attendanceRecords, today, role, mealPlans, sessions, inventoryItems,
                 usage, req, mon>>

\* a catch that starts the invocation again
CaughtRetry(c) == [c EXCEPT !.pc = "PlanLookup"]

\* the outer catch (error) of consumeInventoryForMeal: the error is logged
\* and the invocation ends
Caught(c) == Finish(c, "Error")

\* a store operation awaited directly under the outer try rejects:
\* MealPlan.findOne, AttendanceSession.findOne, User.findOne, User.find or
\* Notification.create
RunFails(r) ==
  /\ cron[r].pc \in {"PlanLookup", "SessionRef", "SystemUser", "NotifyFind",
                     "NotifyCreate"}
  /\ cron' = [cron EXCEPT ![r] = Caught(cron[r])]
  /\ UNCHANGED <<today, role, mealPlans, sessions, inventoryItems, usage,
                 notifications, req, mon, api, attendanceRecords, calc>>

\* AttendanceSession.findOne rejects inside getAttendanceCount: its catch
\* returns null and the run skips
AttendanceLookupFails(r) ==
  /\ cron[r].pc = "AttendanceLookup"
  /\ cron' = [cron EXCEPT ![r] =
       Finish([cron[r] EXCEPT !.consulted = @ \cup
                 {[sessionType |-> cron[r].attendanceSessionType,
                   date |-> cron[r].attendanceDate]}], "SkipNoAttendance")]
  /\ UNCHANGED <<today, role, mealPlans, sessions, inventoryItems, usage,
                 notifications, req, mon, api, attendanceRecords, calc>>

\* InventoryUsage.create rejects: its own catch logs the error and the run
\* goes on
RecordUsageFails(r) ==
  /\ cron[r].pc = "RecordUsage"
  /\ cron' = [cron EXCEPT ![r] = AfterUsage(cron[r])]
  /\ UNCHANGED <<today, role, mealPlans, sessions, inventoryItems, usage,
                 notifications, req, mon, api, attendanceRecords, calc>>

\* ------------------------------------------------------ manual recording
IdleReq ==
  [pc |-> "Idle", usageDate |-> 0, mealType |-> "none", items |-> <<>>,
   user |-> "none", attendanceDate |-> 0,
   attendanceSessionType |-> "none", attendanceCount |-> Null,
   attendanceSession |-> 0, idx |-> 0, processedItems |-> <<>>,
   inventoryUpdates |-> <<>>, errors |-> <<>>, uidx |-> 0, status |-> 0,
   consulted |-> {}, debited |-> <<>>]

Respond(q, status) == [q EXCEPT !.pc = "Done", !.status = status]

\* a lookup that treats a presentCount of 0 as no session
getAttendanceForDateFalsy(date, sessionType) ==
  IF SessionsOn(sessionType, date) = {} THEN {Null}
  ELSE {IF s.presentCount = 0 THEN Null ELSE s.presentCount
        : s \in SessionsOn(sessionType, date)}

\* getAttendanceForDate(date, sessionType): presentCount of a matching
\* session, or null when there is none
getAttendanceForDate(date, sessionType) ==
  IF SessionsOn(sessionType, date) = {} THEN {Null}
  ELSE {s.presentCount : s \in SessionsOn(sessionType, date)}

FieldError(kind) ==
  [kind |-> kind, item |-> "none", available |-> 0, required |-> 0,
   attendance |-> 0]

\* a loop exit that applies the prepared updates whatever the errors
AfterReqLoopApplyAnyway(q) ==
  IF Len(q.inventoryUpdates) = 0 THEN Respond(q, 400)
  ELSE [q EXCEPT !.pc = "Deduct", !.uidx = 1]

\* after the item loop: reject on any error, else start the deductions
AfterReqLoop(q) ==
  IF Len(q.errors) > 0 THEN Respond(q, 400)
  ELSE IF Len(q.inventoryUpdates) = 0 THEN [q EXCEPT !.pc = "CreateUsage"]
  ELSE [q EXCEPT !.pc = "Deduct", !.uidx = 1]

\* the item loop up to its next await: field checks run synchronously
RECURSIVE NextReqItem(_)
NextReqItem(q) ==
  IF q.idx >= Len(q.items) THEN AfterReqLoop(q)
  ELSE LET it == q.items[q.idx + 1]
       IN IF it.recordedForStudents = 0
          THEN NextReqItem([q EXCEPT !.idx = @ + 1,
                 !.errors = Append(@, FieldError("missing field"))])
          ELSE IF it.recordedForStudents \notin {1, 10}
          THEN NextReqItem([q EXCEPT !.idx = @ + 1,
                 !.errors = Append(@, FieldError("recordedForStudents"))])
          ELSE [q EXCEPT !.idx = @ + 1, !.pc = "ItemFind"]

\* POST /api/inventory-usage with one of the given bodies: the checks before
\* the first await
PostUsageOf(m, bodies) ==
  /\ req[m].pc = "Idle"
  /\ Started < MaxOps
  /\ \E i \in 1..Len(Reqs) :
       m = Reqs[i] /\ \A j \in 1..(i - 1) : req[Reqs[j]].pc # "Idle"
  /\ \E body \in bodies :
       LET src == AttendanceSource(body.mealType, body.date)
           q == [IdleReq EXCEPT !.usageDate = body.date,
                                !.mealType = body.mealType,
                                !.items = body.items,
                                !.user = UsersWithRole({"admin", "kitchen"}, 1)[1],
                                !.attendanceDate = src.date,
                                !.attendanceSessionType = src.sessionType]
       IN IF Len(body.items) = 0 \/ body.mealType \notin MealTypes
          THEN req' = [req EXCEPT ![m] = Respond(q, 400)]
          ELSE req' = [req EXCEPT ![m] = [q EXCEPT !.pc = "AttendanceLookup"]]
  /\ UNCHANGED <<calc, api, attendanceRecords, today, role, mealPlans, sessions, inventoryItems,
                 usage, notifications, cron, mon>>

PostUsage(m) == PostUsageOf(m, Bodies)

\* the request that records for today's breakfast what the plan lists for
\* Rice, against the twin item Dhal
TwinBodies ==
  {[date |-> today, mealType |-> "breakfast",
    items |-> <<Line("Dhal", p.breakfastInventory[1].quantity,
                     DefaultForStudents)>>]
   : p \in {x \in PlansFor(dayNames[getDay(today) + 1]) :
              Len(x.breakfastInventory) = 1}}

PostUsageTwin(m) == PostUsageOf(m, TwinBodies)

\* const attendanceCount = await getAttendanceForDate(attendanceDate,
\*                                                    attendanceSessionType)
ReqAttendance(m) ==
  /\ req[m].pc = "AttendanceLookup"
  /\ LET q == req[m]
         seen == [q EXCEPT !.consulted = @ \cup
                    {[sessionType |-> q.attendanceSessionType,
                      date |-> q.attendanceDate]}]
     IN \E n \in getAttendanceForDate(q.attendanceDate,
                                       q.attendanceSessionType) :
          IF n = Null
          THEN req' = [req EXCEPT ![m] = Respond(seen, 404)]
          ELSE req' = [req EXCEPT ![m] =
                 [seen EXCEPT !.pc = "SessionRef", !.attendanceCount = n]]
  /\ UNCHANGED <<calc, api, attendanceRecords, today, role, mealPlans, sessions, inventoryItems,
                 usage, notifications, cron, mon>>

\* const attendanceSession = await AttendanceSession.findOne(...)
ReqSessionRef(m) ==
  /\ req[m].pc = "SessionRef"
  /\ LET q == req[m]
         found == SessionsOn(q.attendanceSessionType, q.attendanceDate)
     IN \E sid \in (IF found = {} THEN {0} ELSE {s.id : s \in found}) :
          req' = [req EXCEPT ![m] =
            NextReqItem([q EXCEPT !.attendanceSession = sid,
                                  !.consulted = @ \cup
                                    {[sessionType |-> q.attendanceSessionType,
                                      date |-> q.attendanceDate]}])]
  /\ UNCHANGED <<calc, api, attendanceRecords, today, role, mealPlans, sessions, inventoryItems,
                 usage, notifications, cron, mon>>

\* const inventoryItem = await InventoryItem.findById(inventoryItemId), the
\* stock test, and the prepared line item and update
ReqItemFind(m) ==
  /\ req[m].pc = "ItemFind"
  /\ LET q == req[m]
         it == q.items[q.idx]
         id == it.inventoryItemId
         actualQuantity == quantityToConsume(q.attendanceCount,
                             it.recordedForStudents, it.recordedQuantity)
     IN IF id \notin DOMAIN inventoryItems
        THEN req' = [req EXCEPT ![m] =
               NextReqItem([q EXCEPT !.errors = Append(@, NotFoundError(id))])]
        ELSE IF Insufficient(inventoryItems[id].currentStock, actualQuantity)
        THEN req' = [req EXCEPT ![m] =
               NextReqItem([q EXCEPT !.errors = Append(@,
                 [InsufficientError(id, inventoryItems[id].currentStock,
                                    actualQuantity, q.attendanceCount)
                    EXCEPT !.attendance = 0])])]
        ELSE req' = [req EXCEPT ![m] =
               NextReqItem([q EXCEPT
                 !.processedItems = Append(@, UsageItem(id,
                    it.recordedQuantity, it.recordedForStudents,
                    actualQuantity)),
                 !.inventoryUpdates = Append(@,
                    [item |-> [id |-> id,
                               currentStock |-> inventoryItems[id].currentStock],
                     quantityToDeduct |-> actualQuantity])])]
  /\ UNCHANGED <<calc, api, attendanceRecords, today, role, mealPlans, sessions, inventoryItems,
                 usage, notifications, cron, mon>>

\* update.item.currentStock -= update.quantityToDeduct; await update.item.save()
ReqDeduct(m) ==
  /\ req[m].pc = "Deduct"
  /\ LET q == req[m]
         update == q.inventoryUpdates[q.uidx]
         id == update.item.id
     IN /\ inventoryItems' = [inventoryItems EXCEPT
             ![id].currentStock =
                update.item.currentStock - update.quantityToDeduct]
        /\ req' = [req EXCEPT ![m] =
             [q EXCEPT !.debited = Append(@, [item |-> id, line |-> q.uidx,
                                   amount |-> update.quantityToDeduct]),
                       !.uidx = @ + 1,
                       !.pc = IF q.uidx < Len(q.inventoryUpdates)
                              THEN "Deduct" ELSE "CreateUsage"]]
  /\ UNCHANGED <<calc, api, attendanceRecords, today, role, mealPlans, sessions, usage,
                 notifications, cron, mon>>

\* const usageRecord = await InventoryUsage.create({...}); a validation
\* error propagates to the error middleware
ReqCreateUsage(m) ==
  /\ req[m].pc = "CreateUsage"
  /\ LET q == req[m]
         doc == [date |-> q.usageDate, mealType |-> q.mealType,
                 items |-> q.processedItems,
                 attendanceCount |-> q.attendanceCount,
                 attendanceSessionId |-> q.attendanceSession,
                 recordedBy |-> q.user, op |-> m]
     IN IF UsageValid(doc)
        THEN /\ usage' = InventoryUsageCreate(doc)
             /\ req' = [req EXCEPT ![m] = [q EXCEPT !.pc = "Populate"]]
        ELSE /\ usage' = usage
             /\ req' = [req EXCEPT ![m] = Respond(q, 500)]
  /\ UNCHANGED <<calc, api, attendanceRecords, today, role, mealPlans, sessions, inventoryItems,
                 notifications, cron, mon>>

\* const populatedUsage = await InventoryUsage.findById(...); res.status(201)
ReqPopulate(m) ==
  /\ req[m].pc = "Populate"
  /\ req' = [req EXCEPT ![m] = Respond(req[m], 201)]
  /\ UNCHANGED <<calc, api, attendanceRecords, today, role, mealPlans, sessions, inventoryItems,
                 usage, notifications, cron, mon>>

\* ------------------------------------------------------ low-stock monitor
IdleMon ==
  [pc |-> "Idle", lowStockItems |-> <<>>, adminUsers |-> <<>>, i |-> 0,
   u |-> 0]

\* a scan that keeps every item, whatever its stock
RECURSIVE lowStockItemsAll(_)
lowStockItemsAll(i) ==
  IF i > Len(ItemOrder) THEN <<>>
  ELSE LET id == ItemOrder[i]
       IN << [name |-> id,
              currentStock |-> inventoryItems[id].currentStock,
              minimumStock |-> inventoryItems[id].minimumStock] >>
          \o lowStockItemsAll(i + 1)

\* inventoryItems.filter(item => item.currentStock <= item.minimumStock)
RECURSIVE lowStockItems(_)
lowStockItems(i) ==
  IF i > Len(ItemOrder) THEN <<>>
  ELSE LET id == ItemOrder[i]
       IN (IF id \in DOMAIN inventoryItems
              /\ inventoryItems[id].currentStock <= inventoryItems[id].minimumStock
           THEN << [name |-> id,
                    currentStock |-> inventoryItems[id].currentStock,
                    minimumStock |-> inventoryItems[id].minimumStock] >>
           ELSE <<>>) \o lowStockItems(i + 1)

LowStockTitle(name) ==
  [kind |-> "Low Stock", subject |-> name, dayName |-> "none"]

\* Notification.findOne({user, title, createdAt >= start of today})
existingNotification(user, title) ==
  \E n \in BagToSet(notifications) :
    /\ n.user = user
    /\ n.title = title
    /\ n.createdAt >= today

\* cron.schedule(schedules.lowStockCheck, ...) fires
CronLowStock(k) ==
  /\ mon[k].pc = "Idle"
  /\ Started < MaxOps
  /\ \E i \in 1..Len(Mons) :
       k = Mons[i] /\ \A j \in 1..(i - 1) : mon[Mons[j]].pc # "Idle"
  /\ mon' = [mon EXCEPT ![k] = [IdleMon EXCEPT !.pc = "Scan"]]
  /\ UNCHANGED <<calc, api, attendanceRecords, today, role, mealPlans, sessions, inventoryItems,
                 usage, notifications, cron, req>>

\* the low stock schedule fires again (every 4 hours by default), after the
\* operations started before have ended
CronLowStockAgain(k) ==
  /\ mon[k].pc = "Idle"
  /\ \E i \in 2..Len(Mons) :
       k = Mons[i] /\ \A j \in 1..(i - 1) : mon[Mons[j]].pc = "Done"
  /\ \A r \in RunIds : cron[r].pc \in {"Idle", "Done"}
  /\ \A m \in ReqIds : req[m].pc \in {"Idle", "Done"}
  /\ \A h \in ApiIds : api[h].pc \in {"Idle", "Done"}
  /\ mon' = [mon EXCEPT ![k] = [IdleMon EXCEPT !.pc = "Scan"]]
  /\ UNCHANGED <<calc, api, attendanceRecords, today, role, mealPlans,
                 sessions, inventoryItems, usage, notifications, cron, req>>

\* const inventoryItems = await InventoryItem.find({}), then the filter
MonScan(k) ==
  /\ mon[k].pc = "Scan"
  /\ LET low == lowStockItems(1)
     IN mon' = [mon EXCEPT ![k] =
          IF Len(low) = 0 THEN [@ EXCEPT !.pc = "Done"]
          ELSE [@ EXCEPT !.pc = "FindUsers", !.lowStockItems = low]]
  /\ UNCHANGED <<calc, api, attendanceRecords, today, role, mealPlans, sessions, inventoryItems,
                 usage, notifications, cron, req>>

\* const adminUsers = await User.find({ role: { $in: ["admin", "kitchen"] } })
MonFindUsers(k) ==
  /\ mon[k].pc = "FindUsers"
  /\ LET users == UsersWithRole({"admin", "kitchen"}, 1)
     IN mon' = [mon EXCEPT ![k] =
          IF Len(users) = 0 THEN [@ EXCEPT !.pc = "Done"]
          ELSE [@ EXCEPT !.pc = "Check", !.adminUsers = users, !.i = 1,
                         !.u = 1]]
  /\ UNCHANGED <<calc, api, attendanceRecords, today, role, mealPlans, sessions, inventoryItems,
                 usage, notifications, cron, req>>

\* the next (item, user) pair of the nested loops
NextPair(c, pc) ==
  IF c.u < Len(c.adminUsers) THEN [c EXCEPT !.pc = pc, !.u = @ + 1]
  ELSE IF c.i < Len(c.lowStockItems)
       THEN [c EXCEPT !.pc = pc, !.i = @ + 1, !.u = 1]
       ELSE [c EXCEPT !.pc = "Done"]

\* const existingNotification = await Notification.findOne({...})
MonCheck(k) ==
  /\ mon[k].pc = "Check"
  /\ LET c == mon[k]
         item == c.lowStockItems[c.i]
         user == c.adminUsers[c.u]
     IN mon' = [mon EXCEPT ![k] =
          IF existingNotification(user, LowStockTitle(item.name))
          THEN NextPair(c, "Check")
          ELSE [c EXCEPT !.pc = "Create"]]
  /\ UNCHANGED <<calc, api, attendanceRecords, today, role, mealPlans, sessions, inventoryItems,
                 usage, notifications, cron, req>>

\* await Notification.create({...}) for the low item and the user
MonCreate(k) ==
  /\ mon[k].pc = "Create"
  /\ LET c == mon[k]
         item == c.lowStockItems[c.i]
         user == c.adminUsers[c.u]
         n == [user |-> user,
               type |-> IF item.currentStock = 0 THEN "alert" ELSE "warning",
               title |-> LowStockTitle(item.name),
               message |-> << [kind |-> IF item.currentStock = 0
                                        THEN "out of stock"
                                        ELSE "below minimum level",
                               item |-> item.name,
                               available |-> item.currentStock,
                               required |-> item.minimumStock,
                               attendance |-> 0] >>,
               read |-> FALSE, createdAt |-> today, op |-> k]
     IN /\ notifications' = notifications (+) SetToBag({n})
        /\ mon' = [mon EXCEPT ![k] = NextPair(c, "Check")]
  /\ UNCHANGED <<calc, api, attendanceRecords, today, role, mealPlans, sessions, inventoryItems,
                 usage, cron, req>>

\* a store operation of checkLowStockItems rejects: the catch logs the error
\* and the invocation ends
MonFails(k) ==
  /\ mon[k].pc \in {"Scan", "FindUsers", "Check", "Create"}
  /\ mon' = [mon EXCEPT ![k] = [@ EXCEPT !.pc = "Done"]]
  /\ UNCHANGED <<today, role, mealPlans, sessions, inventoryItems, usage,
                 notifications, cron, req, api, attendanceRecords, calc>>

\* ------------------------------------------- attendance and meal plan API
\* Student collection
StudentIds == {"s1", "s2"}

IdleApi ==
  [pc |-> "Idle", kind |-> "none", status |-> 0, user |-> "none",
   sessionType |-> "none", attendanceDate |-> 0, records |-> <<>>,
   rpc |-> <<>>, invalidStudents |-> {}, attendanceRecordIds |-> {},
   presentCount |-> 0, absentCount |-> 0, session |-> 0,
   staffToNotify |-> {},
   id |-> 0, day |-> "none", setDay |-> FALSE,
   breakfastInventory |-> <<>>, found |-> 0]

\* the _id the store gives a new document of a collection
NewId(collection) ==
  1 + (CHOOSE m \in {d.id : d \in collection} \cup {0} :
         \A d \in collection : d.id <= m)

ApiRespond(a, status) == [a EXCEPT !.pc = "Done", !.status = status]

\* the lowest idle request slot
FreeApi(h) ==
  /\ api[h].pc = "Idle"
  /\ Started < MaxOps
  /\ \E i \in 1..Len(Apis) :
       h = Apis[i] /\ \A j \in 1..(i - 1) : api[Apis[j]].pc # "Idle"

Rec(student, status) == [student |-> student, status |-> status]

\* request bodies of POST /api/attendance; a date of Null is an absent date
AttendanceBodies ==
  { [sessionType |-> "evening", date |-> 1,
     records |-> <<Rec("s1", "present"), Rec("s2", "absent")>>],
    [sessionType |-> "evening", date |-> 2,
     records |-> <<Rec("s1", "present"), Rec("s2", "present")>>],
    [sessionType |-> "morning", date |-> 2,
     records |-> <<Rec("s1", "present"), Rec("s9", "late")>>],
    [sessionType |-> "night", date |-> 1,
     records |-> <<Rec("s1", "present")>>],
    [sessionType |-> "evening", date |-> Null,
     records |-> <<Rec("s2", "late")>>] }

\* POST /api/attendance: the checks before the first await
PostAttendance(h) ==
  /\ FreeApi(h)
  /\ \E body \in AttendanceBodies :
       LET a == [IdleApi EXCEPT
                   !.kind = "createAttendanceSession",
                   !.user = UsersWithRole({"warden", "admin"}, 1)[1],
                   !.sessionType = body.sessionType,
                   !.records = body.records,
                   !.attendanceDate =
                      IF body.date = Null THEN today ELSE body.date]
       IN IF body.sessionType \notin {"morning", "evening"}
          THEN api' = [api EXCEPT ![h] = ApiRespond(a, 400)]
          ELSE api' = [api EXCEPT ![h] = [a EXCEPT !.pc = "ExistingSession"]]
  /\ UNCHANGED <<calc, today, role, mealPlans, sessions, inventoryItems, usage,
                 notifications, cron, req, mon, attendanceRecords>>

\* const existingSession = await AttendanceSession.findOne({...}); without
\* one, records.map starts the processing of every record
AttExistingSession(h) ==
  /\ api[h].pc = "ExistingSession"
  /\ LET a == api[h]
     IN api' = [api EXCEPT ![h] =
          IF SessionsOn(a.sessionType, a.attendanceDate) # {}
          THEN ApiRespond(a, 409)
          ELSE IF Len(a.records) = 0 THEN [a EXCEPT !.pc = "CreateSession"]
          ELSE [a EXCEPT !.pc = "Records",
                         !.rpc = [i \in 1..Len(a.records) |-> "find"]]]
  /\ UNCHANGED <<calc, today, role, mealPlans, sessions, inventoryItems, usage,
                 notifications, cron, req, mon, attendanceRecords>>

\* a wait that ends with the first record processed
AfterRecordsFirst(a) ==
  IF a.invalidStudents # {} THEN ApiRespond(a, 400)
  ELSE [a EXCEPT !.pc = "CreateSession"]

\* Promise.all resolves when every record is processed; then the check of
\* invalidStudents
AfterRecords(a) ==
  IF \E i \in 1..Len(a.rpc) : a.rpc[i] # "done" THEN a
  ELSE IF a.invalidStudents # {} THEN ApiRespond(a, 400)
  ELSE [a EXCEPT !.pc = "CreateSession"]

\* const student = await Student.findById(record.student), for record i
AttStudentFind(h, i) ==
  /\ api[h].pc = "Records"
  /\ i \in 1..Len(api[h].rpc)
  /\ api[h].rpc[i] = "find"
  /\ LET a == api[h]
     IN api' = [api EXCEPT ![h] =
          IF a.records[i].student \in StudentIds
          THEN [a EXCEPT !.rpc[i] = "create"]
          ELSE AfterRecords([a EXCEPT !.rpc[i] = "done",
                 !.invalidStudents = @ \cup {a.records[i].student}])]
  /\ UNCHANGED <<calc, today, role, mealPlans, sessions, inventoryItems, usage,
                 notifications, cron, req, mon, attendanceRecords>>

\* const newRecord = await AttendanceRecord.create({...}), for record i, and
\* the counters
AttRecordCreate(h, i) ==
  /\ api[h].pc = "Records"
  /\ i \in 1..Len(api[h].rpc)
  /\ api[h].rpc[i] = "create"
  /\ LET a == api[h]
         newId == NewId(attendanceRecords)
         present == a.records[i].status = "present"
     IN /\ attendanceRecords' = attendanceRecords \cup
             {[id |-> newId, student |-> a.records[i].student,
               status |-> a.records[i].status, op |-> h]}
        /\ api' = [api EXCEPT ![h] =
             AfterRecords([a EXCEPT
               !.rpc[i] = "done",
               !.attendanceRecordIds = @ \cup {newId},
               !.presentCount = IF present THEN @ + 1 ELSE @,
               !.absentCount = IF present THEN @ ELSE @ + 1])]
  /\ UNCHANGED <<calc, today, role, mealPlans, sessions, inventoryItems, usage,
                 notifications, cron, req, mon>>

\* const session = await AttendanceSession.create({...})
AttCreateSession(h) ==
  /\ api[h].pc = "CreateSession"
  /\ LET a == api[h]
         newId == NewId(sessions)
     IN /\ sessions' = sessions \cup
             {[Session(newId, a.sessionType, a.attendanceDate,
                       a.presentCount, a.absentCount)
                 EXCEPT !.totalStudents = Len(a.records)]}
        /\ api' = [api EXCEPT ![h] =
             [a EXCEPT !.pc = "Populate", !.session = newId]]
  /\ UNCHANGED <<calc, today, role, mealPlans, inventoryItems, usage,
                 notifications, cron, req, mon, attendanceRecords>>

\* const populatedSession = await AttendanceSession.findById(session._id)
AttPopulate(h) ==
  /\ api[h].pc = "Populate"
  /\ api' = [api EXCEPT ![h] = [@ EXCEPT !.pc = "NotifyUsers"]]
  /\ UNCHANGED <<calc, today, role, mealPlans, sessions, inventoryItems, usage,
                 notifications, cron, req, mon, attendanceRecords>>

\* const staffToNotify = await getUserIdsByRoles(["admin", "warden"],
\*                                                req.user._id)
AttNotifyUsers(h) ==
  /\ api[h].pc = "NotifyUsers"
  /\ api' = [api EXCEPT ![h] =
       [@ EXCEPT !.pc = "Notify",
                 !.staffToNotify =
                    {u \in UserIds : role[u] \in {"admin", "warden"}
                                      /\ u # api[h].user}]]
  /\ UNCHANGED <<calc, today, role, mealPlans, sessions, inventoryItems, usage,
                 notifications, cron, req, mon, attendanceRecords>>

\* await sendNotifications(staffToNotify, {...}): one Notification.create per
\* user, awaited together; then res.status(201)
AttNotify(h) ==
  /\ api[h].pc = "Notify"
  /\ LET a == api[h]
         made == {[user |-> u, type |-> "info",
                   title |-> [kind |-> "Attendance Marked",
                              subject |-> a.sessionType, dayName |-> "none"],
                   message |-> << [kind |-> "marked", item |-> "none",
                                   available |-> a.presentCount,
                                   required |-> a.absentCount,
                                   attendance |-> Len(a.records)] >>,
                   read |-> FALSE, createdAt |-> today, op |-> h]
                  : u \in a.staffToNotify}
     IN /\ notifications' = notifications (+) SetToBag(made)
        /\ api' = [api EXCEPT ![h] = ApiRespond(a, 201)]
  /\ UNCHANGED <<calc, today, role, mealPlans, sessions, inventoryItems, usage,
                 cron, req, mon, attendanceRecords>>

\* GET /api/inventory-usage?mealType=...: InventoryUsage.find and
\* countDocuments awaited together, then res.status(200); a mealType of
\* "none" is an absent filter
GetInventoryUsage(h) ==
  /\ FreeApi(h)
  /\ \E mealType \in {"none", "breakfast"} :
       api' = [api EXCEPT ![h] =
         [IdleApi EXCEPT
            !.kind = "getInventoryUsage", !.pc = "Done", !.status = 200,
            !.user = UsersWithRole({"admin", "kitchen"}, 1)[1],
            !.found = Cardinality({i \in 1..Len(usage) :
                         mealType = "none" \/ usage[i].mealType = mealType})]]
  /\ UNCHANGED <<today, role, mealPlans, sessions, inventoryItems, usage,
                 notifications, cron, req, mon, attendanceRecords, calc>>

\* GET /api/inventory-usage/:id: InventoryUsage.findById, then 404 or 200
GetInventoryUsageById(h) ==
  /\ FreeApi(h)
  /\ \E id \in 1..2 :
       api' = [api EXCEPT ![h] =
         [IdleApi EXCEPT
            !.kind = "getInventoryUsageById", !.pc = "Done", !.id = id,
            !.user = UsersWithRole({"admin", "kitchen"}, 1)[1],
            !.status = IF id <= Len(usage) THEN 200 ELSE 404,
            !.found = IF id <= Len(usage) THEN id ELSE 0]]
  /\ UNCHANGED <<today, role, mealPlans, sessions, inventoryItems, usage,
                 notifications, cron, req, mon, attendanceRecords, calc>>

\* request bodies of POST /api/meal-plans; an estimatedCost of 0 stands for a
\* missing or zero cost
CreatePlanBodies ==
  { [day |-> "Monday", estimatedCost |-> 100,
     breakfastInventory |-> << [inventoryItemId |-> "Rice", quantity |-> 1] >>],
    [day |-> "Tuesday", estimatedCost |-> 100,
     breakfastInventory |-> << [inventoryItemId |-> "Dhal", quantity |-> 1] >>],
    [day |-> "Tuesday", estimatedCost |-> 0, breakfastInventory |-> <<>>] }

\* request bodies of PUT /api/meal-plans/:id; a day of "none" is an absent day
UpdatePlanBodies ==
  { [id |-> 1, day |-> "Tuesday"], [id |-> 1, day |-> "Monday"],
    [id |-> 1, day |-> "none"], [id |-> 2, day |-> "Monday"],
    [id |-> 9, day |-> "Tuesday"] }

\* POST /api/meal-plans: the checks before the first await
PostMealPlan(h) ==
  /\ FreeApi(h)
  /\ \E body \in CreatePlanBodies :
       LET a == [IdleApi EXCEPT
                   !.kind = "createMealPlan",
                   !.user = UsersWithRole({"admin", "kitchen"}, 1)[1],
                   !.day = body.day,
                   !.breakfastInventory = body.breakfastInventory]
       IN IF body.estimatedCost = 0
          THEN api' = [api EXCEPT ![h] = ApiRespond(a, 400)]
          ELSE api' = [api EXCEPT ![h] = [a EXCEPT !.pc = "ExistingPlan"]]
  /\ UNCHANGED <<calc, today, role, mealPlans, sessions, inventoryItems, usage,
                 notifications, cron, req, mon, attendanceRecords>>

\* const existingPlan = await MealPlan.findOne({ day }); if (existingPlan)
PlanExists(day) == PlansFor(day) # {}

\* createMealPlan: the existence check
PlanExisting(h) ==
  /\ api[h].pc = "ExistingPlan"
  /\ api' = [api EXCEPT ![h] =
       IF PlanExists(api[h].day) THEN ApiRespond(@, 400)
       ELSE [@ EXCEPT !.pc = "CreatePlan"]]
  /\ UNCHANGED <<calc, today, role, mealPlans, sessions, inventoryItems, usage,
                 notifications, cron, req, mon, attendanceRecords>>

\* const mealPlan = await MealPlan.create({...})
PlanCreate(h) ==
  /\ api[h].pc = "CreatePlan"
  /\ LET a == api[h]
         newId == NewId(mealPlans)
     IN /\ mealPlans' = mealPlans \cup
             {[id |-> newId, day |-> a.day,
               breakfastInventory |-> a.breakfastInventory,
               lunchInventory |-> <<>>, dinnerInventory |-> <<>>]}
        /\ api' = [api EXCEPT ![h] = [a EXCEPT !.pc = "PopulatePlan",
                                                !.id = newId]]
  /\ UNCHANGED <<calc, today, role, sessions, inventoryItems, usage,
                 notifications, cron, req, mon, attendanceRecords>>

\* await mealPlan.populate([...]); res.status(201) or res.status(200)
PlanPopulate(h) ==
  /\ api[h].pc = "PopulatePlan"
  /\ api' = [api EXCEPT ![h] =
       ApiRespond(@, IF api[h].kind = "createMealPlan" THEN 201 ELSE 200)]
  /\ UNCHANGED <<calc, today, role, mealPlans, sessions, inventoryItems, usage,
                 notifications, cron, req, mon, attendanceRecords>>

\* PUT /api/meal-plans/:id up to its first await
PutMealPlan(h) ==
  /\ FreeApi(h)
  /\ \E body \in UpdatePlanBodies :
       api' = [api EXCEPT ![h] =
         [IdleApi EXCEPT !.kind = "updateMealPlan", !.pc = "FindPlan",
                         !.user = UsersWithRole({"admin", "kitchen"}, 1)[1],
                         !.id = body.id, !.day = body.day]]
  /\ UNCHANGED <<calc, today, role, mealPlans, sessions, inventoryItems, usage,
                 notifications, cron, req, mon, attendanceRecords>>

\* const mealPlan = await MealPlan.findById(req.params.id), and the test
\* day && day !== mealPlan.day
PlanFindById(h) ==
  /\ api[h].pc = "FindPlan"
  /\ LET a == api[h]
         docs == {p \in mealPlans : p.id = a.id}
     IN IF docs = {}
        THEN api' = [api EXCEPT ![h] = ApiRespond(a, 404)]
        ELSE \E p \in docs :
               api' = [api EXCEPT ![h] =
                 IF a.day # "none" /\ a.day # p.day
                 THEN [a EXCEPT !.pc = "ExistingPlanForUpdate", !.found = p.id]
                 ELSE [a EXCEPT !.pc = "SavePlan", !.found = p.id]]
  /\ UNCHANGED <<calc, today, role, mealPlans, sessions, inventoryItems, usage,
                 notifications, cron, req, mon, attendanceRecords>>

\* updateMealPlan: the existence check for the new day; mealPlan.day = day
PlanExistingForUpdate(h) ==
  /\ api[h].pc = "ExistingPlanForUpdate"
  /\ api' = [api EXCEPT ![h] =
       IF PlanExists(api[h].day) THEN ApiRespond(@, 400)
       ELSE [@ EXCEPT !.pc = "SavePlan", !.setDay = TRUE]]
  /\ UNCHANGED <<calc, today, role, mealPlans, sessions, inventoryItems, usage,
                 notifications, cron, req, mon, attendanceRecords>>

\* const updatedMealPlan = await mealPlan.save(): the modified paths are
\* written to the stored document
PlanSave(h) ==
  /\ api[h].pc = "SavePlan"
  /\ LET a == api[h]
     IN /\ mealPlans' =
             {IF p.id = a.found /\ a.setDay THEN [p EXCEPT !.day = a.day]
              ELSE p : p \in mealPlans}
        /\ api' = [api EXCEPT ![h] = [a EXCEPT !.pc = "PopulatePlan"]]
  /\ UNCHANGED <<calc, today, role, sessions, inventoryItems, usage,
                 notifications, cron, req, mon, attendanceRecords>>

\* the wall clock passes midnight; operations take far less than a day, and
\* none is in flight when it does
Tick ==
  /\ today < MaxDay
  /\ \A r \in RunIds : cron[r].pc \in {"Idle", "Done"}
  /\ \A m \in ReqIds : req[m].pc \in {"Idle", "Done"}
  /\ \A k \in MonIds : mon[k].pc \in {"Idle", "Done"}
  /\ \A h \in ApiIds : api[h].pc \in {"Idle", "Done"}
  /\ today' = today + 1
  /\ UNCHANGED <<calc, api, attendanceRecords, role, mealPlans, sessions, inventoryItems, usage,
                 notifications, cron, req, mon>>

Init ==
  /\ today \in 1..MaxDay
  /\ role \in RoleConfigs
  /\ mealPlans \in PlanConfigs
  /\ sessions \in SessionConfigs
  /\ inventoryItems \in StockConfigs
  /\ usage = <<>>
  /\ notifications = EmptyBag
  /\ cron = [r \in RunIds |-> IdleRun]
  /\ req = [m \in ReqIds |-> IdleReq]
  /\ mon = [k \in MonIds |-> IdleMon]
  /\ api = [h \in ApiIds |-> IdleApi]
  /\ attendanceRecords = {}
  /\ calc = IdleCalc

Next ==
  \/ CronBreakfast
  \/ CronLunch
  \/ CronDinner
  \/ CronLegacyDaily
  \/ \E r \in RunIds : PlanLookup(r)
  \/ \E r \in RunIds : AttendanceLookup(r)
  \/ \E r \in RunIds : SessionRef(r)
  \/ \E r \in RunIds : SystemUser(r)
  \/ \E r \in RunIds : ItemFind(r)
  \/ \E r \in RunIds : ItemSave(r)
  \/ \E r \in RunIds : RecordUsage(r)
  \/ \E r \in RunIds : NotifyFind(r)
  \/ \E r \in RunIds : NotifyCreate(r)
  \/ \E m \in ReqIds : PostUsage(m)
  \/ \E m \in ReqIds : ReqAttendance(m)
  \/ \E m \in ReqIds : ReqSessionRef(m)
  \/ \E m \in ReqIds : ReqItemFind(m)
  \/ \E m \in ReqIds : ReqDeduct(m)
  \/ \E m \in ReqIds : ReqCreateUsage(m)
  \/ \E m \in ReqIds : ReqPopulate(m)
  \/ \E h \in ApiIds : GetInventoryUsage(h)
  \/ \E h \in ApiIds : GetInventoryUsageById(h)

\* the consumption engine: scheduled runs, manual recordings and the reads
\* of the usage records
Spec == Init /\ [][Next]_vars

NextMonitor ==
  \/ \E k \in MonIds : CronLowStock(k)
  \/ \E k \in MonIds : MonScan(k)
  \/ \E k \in MonIds : MonFindUsers(k)
  \/ \E k \in MonIds : MonCheck(k)
  \/ \E k \in MonIds : MonCreate(k)
  \/ Tick
  \/ CronBreakfast
  \/ \E r \in RunIds : PlanLookup(r)
  \/ \E r \in RunIds : AttendanceLookup(r)
  \/ \E r \in RunIds : SessionRef(r)
  \/ \E r \in RunIds : SystemUser(r)
  \/ \E r \in RunIds : ItemFind(r)
  \/ \E r \in RunIds : ItemSave(r)
  \/ \E r \in RunIds : RecordUsage(r)
  \/ \E r \in RunIds : NotifyFind(r)
  \/ \E r \in RunIds : NotifyCreate(r)

\* the low-stock monitor, the clock, and the breakfast runs that change stock
SpecMonitor == Init /\ [][NextMonitor]_vars

NextEscalate ==
  \/ NextMonitor
  \/ \E k \in MonIds : CronLowStockAgain(k)

\* the low-stock monitor over a day on which breakfast runs change the stock
\* between two firings of its schedule
SpecEscalate == Init /\ [][NextEscalate]_vars

NextApi ==
  \/ \E h \in ApiIds : PostAttendance(h)
  \/ \E h \in ApiIds : AttExistingSession(h)
  \/ \E h \in ApiIds, i \in 1..2 : AttStudentFind(h, i)
  \/ \E h \in ApiIds, i \in 1..2 : AttRecordCreate(h, i)
  \/ \E h \in ApiIds : AttCreateSession(h)
  \/ \E h \in ApiIds : AttPopulate(h)
  \/ \E h \in ApiIds : AttNotifyUsers(h)
  \/ \E h \in ApiIds : AttNotify(h)
  \/ \E h \in ApiIds : PostMealPlan(h)
  \/ \E h \in ApiIds : PlanExisting(h)
  \/ \E h \in ApiIds : PlanCreate(h)
  \/ \E h \in ApiIds : PlanPopulate(h)
  \/ \E h \in ApiIds : PutMealPlan(h)
  \/ \E h \in ApiIds : PlanFindById(h)
  \/ \E h \in ApiIds : PlanExistingForUpdate(h)
  \/ \E h \in ApiIds : PlanSave(h)

\* the attendance and meal plan endpoints
SpecApi == Init /\ [][NextApi]_vars

\* the steps of one invocation of consumeInventoryForMeal, store failures
\* included
RunStep(r) ==
  \/ PlanLookup(r)
  \/ AttendanceLookup(r)
  \/ AttendanceLookupFails(r)
  \/ SessionRef(r)
  \/ SystemUser(r)
  \/ ItemFind(r)
  \/ ItemFindFails(r)
  \/ ItemSave(r)
  \/ ItemSaveFails(r)
  \/ RecordUsage(r)
  \/ RecordUsageFails(r)
  \/ NotifyFind(r)
  \/ NotifyCreate(r)
  \/ RunFails(r)

\* the steps of one invocation of checkLowStockItems, store failures included
MonStep(k) ==
  \/ MonScan(k)
  \/ MonFindUsers(k)
  \/ MonCheck(k)
  \/ MonCreate(k)
  \/ MonFails(k)

NextFault ==
  \/ CronBreakfast
  \/ CronLunch
  \/ CronDinner
  \/ \E k \in MonIds : CronLowStock(k)
  \/ \E r \in RunIds : RunStep(r)
  \/ \E k \in MonIds : MonStep(k)

\* the scheduled jobs against a store whose operations can fail
SpecFault == Init /\ [][NextFault]_vars

\* the event loop runs every pending continuation, and every store operation
\* settles: an invocation that can take a step eventually takes one
SpecLive ==
  /\ SpecFault
  /\ \A r \in RunIds : WF_vars(RunStep(r))
  /\ \A k \in MonIds : WF_vars(MonStep(k))

InitCalc ==
  /\ today = 1
  /\ role \in RoleConfigs
  /\ mealPlans \in PlanConfigs
  /\ sessions \in SessionConfigs
  /\ inventoryItems \in StockConfigs
  /\ usage = <<>>
  /\ notifications = EmptyBag
  /\ cron = [r \in RunIds |-> IdleRun]
  /\ req = [m \in ReqIds |-> IdleReq]
  /\ mon = [k \in MonIds |-> IdleMon]
  /\ api = [h \in ApiIds |-> IdleApi]
  /\ attendanceRecords = {}
  /\ calc \in CalcInputs

\* the quantity formula over bounded inputs
SpecCalc == InitCalc /\ [][CalcApply]_vars

\* a Monday on which the breakfast plan lists Rice only, and Rice and Dhal
\* hold the same stock
InitTwin ==
  /\ today = 1
  /\ role = [u1 |-> "admin", u2 |-> "admin", u3 |-> "kitchen"]
  /\ \E b \in 1..MaxBase :
       mealPlans = {[id |-> 1, day |-> "Monday",
                     breakfastInventory |->
                       << [inventoryItemId |-> "Rice", quantity |-> b] >>,
                     lunchInventory |-> <<>>, dinnerInventory |-> <<>>]}
  /\ \E n \in 1..MaxBase :
       sessions = {Session(1, "evening", 0, n, 0)}
  /\ \E st \in 0..MaxAttendance :
       inventoryItems = [id \in {"Rice", "Dhal"} |->
                           [currentStock |-> st, minimumStock |-> 0]]
  /\ usage = <<>>
  /\ notifications = EmptyBag
  /\ cron = [r \in RunIds |-> IdleRun]
  /\ req = [m \in ReqIds |-> IdleReq]
  /\ mon = [k \in MonIds |-> IdleMon]
  /\ api = [h \in ApiIds |-> IdleApi]
  /\ attendanceRecords = {}
  /\ calc = IdleCalc

NextTwin ==
  \/ CronBreakfast
  \/ \E r \in RunIds : PlanLookup(r)
  \/ \E r \in RunIds : AttendanceLookup(r)
  \/ \E r \in RunIds : SessionRef(r)
  \/ \E r \in RunIds : SystemUser(r)
  \/ \E r \in RunIds : ItemFind(r)
  \/ \E r \in RunIds : ItemSave(r)
  \/ \E r \in RunIds : RecordUsage(r)
  \/ \E r \in RunIds : NotifyFind(r)
  \/ \E r \in RunIds : NotifyCreate(r)
  \/ \E m \in ReqIds : PostUsageTwin(m)
  \/ \E m \in ReqIds : ReqAttendance(m)
  \/ \E m \in ReqIds : ReqSessionRef(m)
  \/ \E m \in ReqIds : ReqItemFind(m)
  \/ \E m \in ReqIds : ReqDeduct(m)
  \/ \E m \in ReqIds : ReqCreateUsage(m)
  \/ \E m \in ReqIds : ReqPopulate(m)

\* one scheduled breakfast run on Rice beside one manual recording of the
\* same line on Dhal
SpecTwin == InitTwin /\ [][NextTwin]_vars

\* ------------------------------------------------------------- properties
Ops == RunIds \cup ReqIds

\* the local state of a consumption operation (scheduled or manual)
OpState(o) == IF o \in RunIds THEN cron[o] ELSE req[o]

Last(seq) == seq[Len(seq)]

\* the step appends one entry to the debits of operation o
Debits(o) == Len(OpState(o).debited)' = Len(OpState(o).debited) + 1

\* C1: after any sequence of scheduled runs and manual recordings, starting
\* from non-negative stocks, the currentStock of every inventory item is >= 0
\* and every stock value an operation is about to write is >= 0: an amount
\* larger than the stock read is rejected, never clamped.
C1_StockNeverNegative ==
  /\ \A id \in DOMAIN inventoryItems : inventoryItems[id].currentStock >= 0
  /\ \A r \in RunIds :
       cron[r].pc = "ItemSave" => cron[r].inventoryItem.currentStock >= 0
  /\ \A m \in ReqIds : \A j \in 1..Len(req[m].inventoryUpdates) :
       req[m].inventoryUpdates[j].item.currentStock
         - req[m].inventoryUpdates[j].quantityToDeduct >= 0

\* a scheduled run finished having drained one item to zero and rejected
\* another for insufficient stock
C1_Witness ==
  \E r \in RunIds :
    /\ cron[r].pc = "Done"
    /\ \E j \in 1..Len(cron[r].debited) :
         /\ cron[r].debited[j].amount > 0
         /\ inventoryItems[cron[r].debited[j].item].currentStock = 0
    /\ \E j \in 1..Len(cron[r].errors) :
         cron[r].errors[j].kind = "Insufficient stock"

\* C2: for every debit applied by a scheduled run or a manual recording, the
\* new stock equals the stock immediately before the write minus the amount,
\* and the amount does not exceed the stock held at the moment of the write.
C2_DebitExact ==
  [][\A o \in Ops :
       Debits(o) =>
         LET e == Last(OpState(o).debited')
         IN /\ inventoryItems'[e.item].currentStock
                 = inventoryItems[e.item].currentStock - e.amount
            /\ e.amount <= inventoryItems[e.item].currentStock]_vars

\* C3: in a scheduled run, when the required quantity of a plan item exceeds
\* the current stock of the item, the step that examines the item leaves
\* every stock unchanged, accumulates one error naming the item, the
\* available and the required amount (two decimals), and adds no usage line
\* item and no debit.
C3_InsufficientLeavesStock ==
  [][\A r \in RunIds :
       LET c == cron[r]
           item == c.mealInventory[c.idx]
           id == item.inventoryItemId
           required == c.attendanceCount * item.quantity
       IN (/\ c.pc = "ItemFind"
           /\ cron'[r] # c
           /\ id \in DOMAIN inventoryItems
           /\ required > inventoryItems[id].currentStock)
          => /\ inventoryItems' = inventoryItems
             /\ cron'[r].usageItems = c.usageItems
             /\ cron'[r].debited = c.debited
             /\ Len(cron'[r].errors) = Len(c.errors) + 1
             /\ Last(cron'[r].errors).item = id
             /\ Last(cron'[r].errors).available
                  = 10 * inventoryItems[id].currentStock
             /\ Last(cron'[r].errors).required = 10 * required]_vars

\* a finished scheduled run holds an insufficient-stock error for an item
\* whose stock is still what the error reports, and debited another item
C3_Witness ==
  \E r \in RunIds :
    /\ cron[r].pc = "Done"
    /\ Len(cron[r].debited) > 0
    /\ \E j \in 1..Len(cron[r].errors) :
         LET e == cron[r].errors[j]
         IN /\ e.kind = "Insufficient stock"
            /\ e.required > e.available
            /\ e.available = 10 * inventoryItems[e.item].currentStock
            /\ \A k \in 1..Len(cron[r].usageItems) :
                 cron[r].usageItems[k].inventoryItemId # e.item
\* the session the policy assigns to operation o: the evening of the day
\* before its date for breakfast and lunch, the evening of its date for dinner
ExpectedSource(o) ==
  LET s == OpState(o)
      D == IF o \in RunIds THEN s.dateObj ELSE s.usageDate
  IN [sessionType |-> "evening",
      date |-> IF s.mealType \in {"breakfast", "lunch"} THEN D - 1 ELSE D]

LookedUp(o) ==
  \/ OpState(o).attendanceCount # Null
  \/ o \in RunIds /\ cron[o].exit = "SkipNoAttendance"
  \/ o \in ReqIds /\ req[o].status = 404

\* C4: for every date D, the scheduled run and the manual recording consult
\* only the evening session of D-1 for breakfast and lunch and only the
\* evening session of D for dinner, and the attendance count they use is the
\* presentCount of such a session.
C4_AttendanceSource ==
  \A o \in Ops :
    /\ OpState(o).consulted \subseteq {ExpectedSource(o)}
    /\ LookedUp(o) => OpState(o).consulted = {ExpectedSource(o)}
    /\ OpState(o).attendanceCount # Null =>
         \E s \in sessions :
           /\ s.sessionType = "evening"
           /\ s.markedAt = ExpectedSource(o).date
           /\ s.presentCount = OpState(o).attendanceCount

\* a breakfast run and a dinner recording of the same day have resolved
\* their attendance, from different sessions
C4_Witness ==
  \E r \in RunIds, m \in ReqIds :
    /\ cron[r].mealType = "breakfast" /\ cron[r].attendanceCount > 0
    /\ req[m].mealType = "dinner" /\ req[m].attendanceCount > 0
    /\ cron[r].dateObj = req[m].usageDate
    /\ cron[r].attendanceCount # req[m].attendanceCount

UsageOf(o) == {i \in 1..Len(usage) : usage[i].op = o}
NotificationsOf(o) == {n \in BagToSet(notifications) : n.op = o}

\* C5: a scheduled run whose attendance lookup finds no session, or a
\* session with presentCount 0, ends without debiting any item and without
\* creating a usage record.
C5_NoAttendanceNoEffect ==
  \A r \in RunIds :
    LET c == cron[r]
        found == {s \in sessions : /\ s.sessionType = "evening"
                                   /\ s.markedAt = ExpectedSource(r).date}
    IN (/\ c.pc \notin {"Idle", "PlanLookup", "AttendanceLookup"}
        /\ c.exit # "SkipNoPlan"
        /\ \A s \in found : s.presentCount = 0)
       => /\ c.pc = "Done"
          /\ c.debited = <<>>
          /\ UsageOf(r) = {}

\* one run was skipped on a session with presentCount 0 and another on a
\* missing session
C5_Witness ==
  \E r1 \in RunIds, r2 \in RunIds :
    /\ cron[r1].exit = "SkipNoAttendance" /\ cron[r1].attendanceCount = 0
    /\ cron[r2].exit = "SkipNoAttendance" /\ cron[r2].attendanceCount = Null

\* C6: on a weekday without a registered meal plan a scheduled run, for any
\* meal type, changes no stock and creates no usage record and no
\* notification.
C6_NoPlanNoEffect ==
  \A r \in RunIds :
    LET c == cron[r]
    IN (/\ c.pc \notin {"Idle", "PlanLookup"}
        /\ \A p \in mealPlans : p.day # dayNames[(c.dateObj % 7) + 1])
       => /\ c.pc = "Done"
          /\ c.debited = <<>>
          /\ UsageOf(r) = {}
          /\ NotificationsOf(r) = {}

\* a breakfast run of a day without a plan has ended while the evening
\* session of the day before exists with students present and stock is held
C6_Witness ==
  \E r \in RunIds :
    /\ cron[r].pc = "Done" /\ cron[r].exit = "SkipNoPlan"
    /\ cron[r].mealType = "breakfast"
    /\ \E s \in sessions : /\ s.sessionType = "evening"
                           /\ s.markedAt = cron[r].dateObj - 1
                           /\ s.presentCount > 0
    /\ \E id \in DOMAIN inventoryItems : inventoryItems[id].currentStock > 0

\* C7: a finished scheduled run that debited at least one item has created
\* exactly one InventoryUsage record, for its date and meal type, with the
\* attendance count it used and with one line item per debit (plan quantity,
\* group size 10, amount debited), in order; a run that debited nothing has
\* created none; no run ever has more than one record.
C7_UsageRecordOfRun ==
  \A r \in RunIds :
    LET c == cron[r]
    IN /\ Cardinality(UsageOf(r)) <= 1
       /\ c.pc = "Done" =>
            IF Len(c.debited) = 0 THEN UsageOf(r) = {}
            ELSE \E i \in UsageOf(r) :
                   /\ usage[i].date = c.dateObj
                   /\ usage[i].mealType = c.mealType
                   /\ usage[i].attendanceCount = c.attendanceCount
                   /\ Len(usage[i].items) = Len(c.debited)
                   /\ \A j \in 1..Len(c.debited) :
                        LET d == c.debited[j]
                            planItem == c.mealInventory[d.line]
                        IN /\ planItem.inventoryItemId = d.item
                           /\ usage[i].items[j] =
                                [inventoryItemId |-> d.item,
                                 recordedQuantity |-> planItem.quantity,
                                 recordedForStudents |-> 10,
                                 actualQuantityDeducted |-> d.amount]

\* a finished run debited one item of a two-item plan and failed on the
\* other, and its record lists one line
C7_Witness ==
  \E r \in RunIds :
    /\ cron[r].pc = "Done"
    /\ Len(cron[r].mealInventory) = 2
    /\ Len(cron[r].debited) = 1 /\ cron[r].debited[1].amount > 0
    /\ Len(cron[r].errors) = 1
    /\ \E i \in UsageOf(r) : Len(usage[i].items) = 1

\* C8: a scheduled run creates notifications if and only if it accumulated
\* at least one per-item error: each one is of type "alert", carries all
\* accumulated errors and goes to a user with the admin role, no user gets
\* two, and once the run is done every admin has one.
C8_ErrorNotifications ==
  \A r \in RunIds :
    LET c == cron[r]
    IN /\ \A n \in NotificationsOf(r) :
            /\ Len(c.errors) > 0
            /\ role[n.user] = "admin"
            /\ n.type = "alert"
            /\ n.message = c.errors
            /\ CopiesIn(n, notifications) = 1
       /\ \A n1 \in NotificationsOf(r), n2 \in NotificationsOf(r) :
            n1.user = n2.user => n1 = n2
       /\ (c.pc = "Done" /\ Len(c.errors) > 0) =>
            \A u \in UserIds :
              role[u] = "admin" => \E n \in NotificationsOf(r) : n.user = u

\* a finished run with errors has notified two admins while a third user,
\* of the kitchen role, has none; another finished run without errors has
\* notified nobody
C8_Witness ==
  \E r \in RunIds, q \in RunIds :
    /\ cron[r].pc = "Done" /\ Len(cron[r].errors) > 0
    /\ Cardinality(NotificationsOf(r)) = 2
    /\ \E u \in UserIds : role[u] = "kitchen"
    /\ cron[q].pc = "Done" /\ Len(cron[q].debited) > 0
    /\ Len(cron[q].errors) = 0 /\ NotificationsOf(q) = {}

\* C9: in every reachable state there is at most one InventoryUsage record
\* per (date, mealType).
C9_OneUsagePerMeal ==
  \A i \in 1..Len(usage), j \in 1..Len(usage) :
    (usage[i].date = usage[j].date /\ usage[i].mealType = usage[j].mealType)
      => i = j

\* C10: the low-stock monitor never creates two notifications for the same
\* item, recipient and calendar day.
C10_NoDuplicateLowStock ==
  \A n1 \in BagToSet(notifications), n2 \in BagToSet(notifications) :
    (/\ n1.title.kind = "Low Stock"
     /\ n1.title = n2.title
     /\ n1.user = n2.user
     /\ n1.createdAt = n2.createdAt)
      => n1 = n2 /\ CopiesIn(n1, notifications) = 1

\* the notifications created by the low-stock monitor
LowStockNotifications ==
  {n \in BagToSet(notifications) : n.title.kind = "Low Stock"}

\* C11: every notification of the low-stock monitor is for an item whose
\* currentStock was <= minimumStock at scan time and for a user with role admin
\* or kitchen; its type is "alert" exactly when that stock was zero and
\* "warning" otherwise.
C11_LowStockNotification ==
  \A n \in LowStockNotifications :
    /\ n.message[1].available <= n.message[1].required
    /\ role[n.user] \in {"admin", "kitchen"}
    /\ n.type = (IF n.message[1].available = 0 THEN "alert" ELSE "warning")

\* a finished scan alerted a kitchen user about an item that ran out and
\* warned about nothing else, while another item stays above its minimum
C11_Witness ==
  \E k \in MonIds, n \in LowStockNotifications, id \in DOMAIN inventoryItems :
    /\ mon[k].pc = "Done" /\ n.op = k
    /\ n.type = "alert" /\ role[n.user] = "kitchen"
    /\ inventoryItems[id].currentStock > inventoryItems[id].minimumStock
    /\ \A x \in LowStockNotifications : x.title.subject # id

\* C12: a manual recording in which any listed item yields a validation,
\* not-found or insufficient-stock error in the item loop is rejected as a
\* whole: it debits no item (the items that passed their checks included),
\* creates no usage record, and answers 400.
C12_RejectedAsAWhole ==
  \A m \in ReqIds :
    Len(req[m].errors) > 0 =>
      /\ req[m].debited = <<>>
      /\ UsageOf(m) = {}
      /\ req[m].pc \in {"ItemFind", "Done"}
      /\ req[m].pc = "Done" => req[m].status = 400

\* a rejected request in which one item had passed its checks against a
\* sufficient stock and another was not found
C12_Witness ==
  \E m \in ReqIds :
    /\ req[m].pc = "Done" /\ req[m].status = 400
    /\ Len(req[m].errors) > 0
    /\ Len(req[m].inventoryUpdates) > 0
    /\ req[m].inventoryUpdates[1].quantityToDeduct > 0
    /\ \E i \in 1..Len(req[m].errors) : req[m].errors[i].kind = "not found"

\* the request lists an item the usage model rejects
Malformed(m) ==
  \E i \in 1..Len(req[m].items) :
    \/ req[m].items[i].recordedQuantity < 0
    \/ req[m].items[i].recordedForStudents \notin {1, 10}

\* C13: a manual recording containing an item with recordedQuantity < 0 or
\* recordedForStudents outside {1, 10} is rejected before any state change:
\* no step of the request changes the stock of any item.
C13_MalformedChangesNothing ==
  [][\A m \in ReqIds :
       (Malformed(m) /\ req[m]' # req[m]) => inventoryItems' = inventoryItems]_vars

\* C14: in every reachable state there is at most one AttendanceSession per
\* (sessionType, calendar date), also when two create requests for the same
\* key overlap.
C14_OneSessionPerKey ==
  \A s1 \in sessions, s2 \in sessions :
    (s1.sessionType = s2.sessionType /\ s1.markedAt = s2.markedAt) => s1 = s2

\* C17: in every reachable state there is at most one MealPlan per weekday
\* name, also when create or update requests for the same weekday overlap.
C17_OnePlanPerDay ==
  \A p1 \in mealPlans, p2 \in mealPlans : p1.day = p2.day => p1 = p2

\* C15: the quantity to consume is (attendance / groupSize) * baseQuantity
\* with no rounding: doubling the attendance doubles it, it equals
\* baseQuantity when attendance = groupSize, and base 5, group 10,
\* attendance 25 gives 12.5 (quantities in tenths).
C15_QuantityFormula ==
  calc.pc = "Done" =>
    /\ calc.result * calc.forStudents =
         calc.attendanceCount * calc.baseQuantity * DefaultForStudents
    /\ calc.doubled = 2 * calc.result
    /\ calc.attendanceCount = calc.forStudents =>
         calc.result = calc.baseQuantity * DefaultForStudents
    /\ (calc.baseQuantity = 5 /\ calc.forStudents = 10
         /\ calc.attendanceCount = 25) => calc.result = 125

\* the formula was applied to base 5, group 10, attendance 25
C15_Witness ==
  /\ calc.pc = "Done"
  /\ calc.baseQuantity = 5 /\ calc.forStudents = 10
  /\ calc.attendanceCount = 25 /\ calc.result = 125

\* the line items of the usage records of operation o, without the item id
LinesOf(o) ==
  {[i \in 1..Len(usage[k].items) |->
      [recordedQuantity |-> usage[k].items[i].recordedQuantity,
       recordedForStudents |-> usage[k].items[i].recordedForStudents,
       actualQuantityDeducted |-> usage[k].items[i].actualQuantityDeducted]]
   : k \in UsageOf(o)}

\* one scheduled run and one manual recording have finished, nothing else ran
TwinsDone ==
  /\ cron["r1"].pc = "Done" /\ req["m1"].pc = "Done"
  /\ \A r \in RunIds \ {"r1"} : cron[r].pc = "Idle"
  /\ \A m \in ReqIds \ {"m1"} : req[m].pc = "Idle"

C18_UsageAppendOnly ==
  [][/\ Len(usage') >= Len(usage)
     /\ \A i \in 1..Len(usage) : usage'[i] = usage[i]]_vars

\* a record was created and a later read of it by id has answered
C18_Witness ==
  /\ Len(usage) = 1
  /\ \E h \in ApiIds :
       /\ api[h].kind = "getInventoryUsageById"
       /\ api[h].status = 200

\* the run found a plan whose list for the run's meal type is empty
EmptyMeal(r) ==
  /\ cron[r].mealPlan # NullPlan
  /\ \/ cron[r].mealType = "breakfast"
        /\ cron[r].mealPlan.breakfastInventory = <<>>
     \/ cron[r].mealType = "lunch" /\ cron[r].mealPlan.lunchInventory = <<>>
     \/ cron[r].mealType = "dinner" /\ cron[r].mealPlan.dinnerInventory = <<>>

\* C19: a scheduled run whose meal plan has an empty inventory list for the
\* requested meal type changes no stock, creates no usage record and raises
\* no error notification.
C19_EmptyMealNoEffect ==
  \A r \in RunIds :
    EmptyMeal(r) =>
      /\ cron[r].debited = <<>>
      /\ cron[r].errors = <<>>
      /\ UsageOf(r) = {}
      /\ NotificationsOf(r) = {}
      /\ cron[r].pc \in {"AttendanceLookup", "SessionRef", "Done"}
      /\ cron[r].pc = "Done" =>
           cron[r].exit \in {"SkipNoAttendance", "SkipEmpty"}

\* a dinner run with attendance found an empty dinner list and ended, while
\* the plan lists breakfast items and stock is available
C19_Witness ==
  \E r \in RunIds :
    /\ EmptyMeal(r)
    /\ cron[r].pc = "Done" /\ cron[r].exit = "SkipEmpty"
    /\ cron[r].attendanceCount > 0
    /\ cron[r].mealPlan.breakfastInventory # <<>>
    /\ \A id \in DOMAIN inventoryItems : inventoryItems[id].currentStock > 0

\* the run has left the item loop
PastLoop(r) ==
  \/ cron[r].pc \in {"RecordUsage", "NotifyFind", "NotifyCreate"}
  \/ cron[r].pc = "Done" /\ cron[r].exit = "Done"

\* C20: within one scheduled run a failure on one plan item (not found,
\* insufficient stock, an exception while reading or saving) never aborts
\* the batch: a run leaves the loop only after every plan item was processed,
\* each with one outcome (a debit or an error), and every item found with
\* sufficient stock goes on to its debit whatever errors were accumulated.
C20_FailureIsolated ==
  [][\A r \in RunIds :
       /\ PastLoop(r)' =>
            /\ cron[r]'.idx = Len(cron[r]'.mealInventory) + 1
            /\ Len(cron[r]'.errors) + Len(cron[r]'.debited)
                 = Len(cron[r]'.mealInventory)
       /\ (cron[r].pc = "ItemFind" /\ cron[r]' # cron[r]
            /\ ~(cron[r]'.pc \in {"ItemFind", "ItemSave"}
                  /\ cron[r]'.idx = IF cron[r]'.pc = "ItemSave"
                                     THEN cron[r].idx ELSE cron[r].idx + 1))
           => cron[r].idx = Len(cron[r].mealInventory)
       /\ (cron[r].pc = "ItemFind" /\ cron[r]'.pc = "ItemFind"
            /\ cron[r]' # cron[r]
            /\ Len(cron[r]'.errors) = Len(cron[r].errors) + 1
            /\ Last(cron[r]'.errors).kind # "Error processing")
           => LET id == cron[r].mealInventory[cron[r].idx].inventoryItemId
              IN id \in DOMAIN inventoryItems =>
                   inventoryItems[id].currentStock
                     < quantityToConsume(cron[r].attendanceCount,
                         DefaultForStudents,
                         cron[r].mealInventory[cron[r].idx].quantity)]_vars

\* a finished run whose first item failed and whose second item was debited
C20_Witness ==
  \E r \in RunIds :
    /\ cron[r].pc = "Done" /\ cron[r].exit = "Done"
    /\ Len(cron[r].mealInventory) = 2
    /\ Len(cron[r].errors) = 1 /\ Len(cron[r].debited) = 1
    /\ cron[r].debited[1].line = 2

\* the position of a run in the order of its phases
Rank(pc) ==
  CASE pc = "Idle" -> 0
    [] pc = "PlanLookup" -> 1
    [] pc \in {"AttendanceLookup", "SessionRef", "SystemUser"} -> 2
    [] pc \in {"ItemFind", "ItemSave"} -> 3
    [] pc = "RecordUsage" -> 4
    [] pc \in {"NotifyFind", "NotifyCreate"} -> 5
    [] OTHER -> 6

\* the run ended before the item loop
EarlyExit(r) == cron[r].pc = "Done" /\ cron[r].exit # "Done"

\* what a run has written, against the phase it is in
PhaseOrder(r) ==
  LET c == cron[r]
      all == c.idx = Len(c.mealInventory) + 1
  IN /\ c.debited # <<>> =>
          /\ Rank(c.pc) >= 3
          /\ c.mealPlan # NullPlan
          /\ c.attendanceCount > 0
     /\ Rank(c.pc) = 4 => all /\ UsageOf(r) = {}
     /\ UsageOf(r) # {} => all /\ Rank(c.pc) >= 5
     /\ Rank(c.pc) = 5 =>
          all /\ Len(c.errors) > 0 /\ (c.debited # <<>> => UsageOf(r) # {})
     /\ NotificationsOf(r) # {} =>
          /\ all /\ Rank(c.pc) >= 5
          /\ c.debited # <<>> => UsageOf(r) # {}
     /\ EarlyExit(r) =>
          /\ c.debited = <<>> /\ c.errors = <<>>
          /\ UsageOf(r) = {} /\ NotificationsOf(r) = {}

C22_AlwaysTerminates ==
  /\ \A r \in RunIds : (cron[r].pc # "Idle") ~> (cron[r].pc = "Done")
  /\ \A k \in MonIds : (mon[k].pc # "Idle") ~> (mon[k].pc = "Done")
  /\ [][/\ \A r \in RunIds :
            /\ cron[r].pc = "Done" => cron[r]' = cron[r]
            /\ Rank(cron[r].pc') >= Rank(cron[r].pc)
         /\ \A k \in MonIds : mon[k].pc = "Done" => mon[k]' = mon[k]]_vars

\* a run ended in the outer catch after it had debited an item, and a run
\* triggered beside it went through to the end
C22_Witness ==
  /\ cron["r1"].pc = "Done" /\ cron["r1"].exit = "Error"
  /\ cron["r1"].debited # <<>>
  /\ cron["r2"].pc = "Done" /\ cron["r2"].exit = "Done"
  /\ cron["r2"].debited # <<>>

\* the sessions of the type and day operation o takes its attendance from
SourceSessions(o) ==
  SessionsOn(ExpectedSource(o).sessionType, ExpectedSource(o).date)

\* C23: the attendance lookup gives no count exactly when no session of the
\* type lies within the day, and gives 0 when a session with presentCount 0
\* does. A manual recording answers 404, with no debit and no usage record,
\* only in the first case; in the second it proceeds with attendance 0,
\* debits zero and creates its usage record. A scheduled run skips in both.
C23_NotFoundVersusZero ==
  /\ \A m \in ReqIds :
       LET q == req[m]
       IN /\ q.status = 404 =>
               /\ SourceSessions(m) = {}
               /\ q.debited = <<>> /\ UsageOf(m) = {}
          /\ (LookedUp(m) /\ SourceSessions(m) = {}) =>
               q.pc = "Done" /\ q.status = 404 /\ q.attendanceCount = Null
          /\ (LookedUp(m) /\ SourceSessions(m) # {}) =>
               \E s \in SourceSessions(m) : q.attendanceCount = s.presentCount
          /\ q.attendanceCount = 0 =>
               /\ \A j \in 1..Len(q.debited) : q.debited[j].amount = 0
               /\ q.status = 201 =>
                    \E i \in UsageOf(m) :
                      /\ usage[i].attendanceCount = 0
                      /\ Len(usage[i].items) = Len(q.items)
                      /\ \A j \in 1..Len(usage[i].items) :
                           usage[i].items[j].actualQuantityDeducted = 0
               /\ (q.pc = "Done" /\ q.errors = <<>>
                   /\ \A j \in 1..Len(q.items) :
                        q.items[j].recordedQuantity >= 0) => q.status = 201
  /\ \A r \in RunIds :
       LET c == cron[r]
       IN /\ (LookedUp(r) /\ SourceSessions(r) = {}) =>
               c.attendanceCount = Null /\ c.exit = "SkipNoAttendance"
          /\ (LookedUp(r) /\ SourceSessions(r) # {}) =>
               \E s \in SourceSessions(r) : c.attendanceCount = s.presentCount
          /\ c.attendanceCount = 0 => c.exit = "SkipNoAttendance"
          /\ c.exit = "SkipNoAttendance" =>
               /\ c.attendanceCount \in {Null, 0}
               /\ c.debited = <<>> /\ UsageOf(r) = {}

\* one recording went through on a session with nobody present and created
\* its record with a zero deduction; another found no session and got 404
C23_Witness ==
  \E m \in ReqIds, n \in ReqIds :
    /\ req[m].status = 201 /\ req[m].attendanceCount = 0
    /\ Len(req[m].debited) > 0
    /\ \E i \in UsageOf(m) : usage[i].items[1].actualQuantityDeducted = 0
    /\ req[n].status = 404

\* the create request names a student the Student collection does not hold
NamesUnknownStudent(h) ==
  /\ api[h].kind = "createAttendanceSession"
  /\ \E i \in 1..Len(api[h].records) :
       api[h].records[i].student \notin StudentIds

\* C24: a createAttendanceSession request that names at least one unknown
\* student leaves no document behind: no AttendanceSession and no
\* AttendanceRecord it created exists.
C24_UnknownStudentNoState ==
  \A h \in ApiIds :
    NamesUnknownStudent(h) =>
      /\ api[h].session = 0
      /\ \A d \in attendanceRecords : d.op # h

\* the sum of the amounts of the first j prepared updates of request state q
\* that reference item id
RECURSIVE SumDeducted(_, _, _)
SumDeducted(q, id, j) ==
  IF j = 0 THEN 0
  ELSE SumDeducted(q, id, j - 1)
       + (IF q.inventoryUpdates[j].item.id = id
          THEN q.inventoryUpdates[j].quantityToDeduct ELSE 0)

\* C25: when a manual recording, the only operation, has answered 201, the
\* stock of every item it lists is the stock it read first minus the sum of
\* actualQuantityDeducted over all its line items for that item, also when
\* the item is listed more than once, and that sum did not exceed the stock.
C25_DuplicateLinesSum ==
  \A m \in ReqIds :
    (req[m].status = 201 /\ Started = 1) =>
      \A j \in 1..Len(req[m].inventoryUpdates) :
        LET q == req[m]
            id == q.inventoryUpdates[j].item.id
            total == SumDeducted(q, id, Len(q.inventoryUpdates))
        IN (\A k \in 1..(j - 1) : q.inventoryUpdates[k].item.id # id) =>
             /\ total <= q.inventoryUpdates[j].item.currentStock
             /\ inventoryItems[id].currentStock
                  = q.inventoryUpdates[j].item.currentStock - total

\* the sum of the amounts of the first j debits of the list that are for id
RECURSIVE SumAmounts(_, _, _)
SumAmounts(debited, id, j) ==
  IF j = 0 THEN 0
  ELSE SumAmounts(debited, id, j - 1)
       + (IF debited[j].item = id THEN debited[j].amount ELSE 0)

\* the sum of the debits the first n operations of the list applied to id
RECURSIVE DebitedBy(_, _, _)
DebitedBy(ops, id, n) ==
  IF n = 0 THEN 0
  ELSE DebitedBy(ops, id, n - 1)
       + SumAmounts(OpState(ops[n]).debited, id, Len(OpState(ops[n]).debited))

TotalDebited(id) == DebitedBy(Runs \o Reqs, id, Len(Runs) + Len(Reqs))

\* the stock the behaviour started with: minimumStock never changes and
\* tells the initial stock levels apart
InitialStock(id) ==
  (CHOOSE cfg \in StockConfigs :
     \A i \in DOMAIN cfg :
       cfg[i].minimumStock = inventoryItems[i].minimumStock)[id].currentStock

\* the request lists one inventory item in two of its lines
RepeatsItem(m) ==
  \E i \in 1..Len(req[m].items), j \in 1..Len(req[m].items) :
    i < j /\ req[m].items[i].inventoryItemId = req[m].items[j].inventoryItemId

\* C26: no debit is lost under interleaving: whatever scheduled runs and
\* manual recordings overlap (none of them listing an item twice), the stock
\* of every item is its initial stock minus the sum of all amounts debited
\* from it, and is >= 0.
C26_NoLostDebit ==
  (\A m \in ReqIds : ~RepeatsItem(m)) =>
    \A id \in DOMAIN inventoryItems :
      /\ inventoryItems[id].currentStock >= 0
      /\ inventoryItems[id].currentStock
           = InitialStock(id) - TotalDebited(id)

\* a usage record of operation o lists every debit of o, in order
Accounted(o) ==
  \E i \in UsageOf(o) :
    /\ Len(usage[i].items) = Len(OpState(o).debited)
    /\ \A j \in 1..Len(usage[i].items) :
         /\ usage[i].items[j].inventoryItemId = OpState(o).debited[j].item
         /\ usage[i].items[j].actualQuantityDeducted
              = OpState(o).debited[j].amount

\* C27: when a scheduled run or a manual recording has finished, the debits
\* it applied are the line items of a usage record it created, or, on the
\* scheduled path, at least a notification of the run reports them; also
\* when persisting the usage record fails.
C27_AuditComplete ==
  \A o \in Ops :
    (OpState(o).pc = "Done" /\ OpState(o).debited # <<>>) =>
      \/ Accounted(o)
      \/ o \in RunIds /\ NotificationsOf(o) # {}

NoAdmin == \A u \in UserIds : role[u] # "admin"

\* C28: when no user with the admin role exists, a scheduled run debits no
\* stock, creates no usage record and no notification, and a run that passed
\* the plan and attendance lookups with items to process ends at the system
\* user lookup, before the first item.
C28_NoAdminNoEffect ==
  NoAdmin =>
    \A r \in RunIds :
      LET c == cron[r]
      IN /\ Rank(c.pc) \notin {3, 4, 5}
         /\ c.debited = <<>> /\ c.errors = <<>> /\ c.idx = 0
         /\ UsageOf(r) = {} /\ NotificationsOf(r) = {}
         /\ (c.pc = "Done" /\ c.mealInventory # <<>>) =>
              c.exit = "SkipNoAdmin" /\ c.attendanceCount > 0

\* without an admin user a run with a plan, attendance, items to process and
\* stock in hand has ended at the system user lookup
C28_Witness ==
  /\ NoAdmin
  /\ \E r \in RunIds :
       /\ cron[r].pc = "Done" /\ cron[r].exit = "SkipNoAdmin"
       /\ cron[r].attendanceCount > 0
       /\ \E i \in 1..Len(cron[r].mealInventory) :
            LET it == cron[r].mealInventory[i]
            IN /\ it.inventoryItemId \in DOMAIN inventoryItems
               /\ inventoryItems[it.inventoryItemId].currentStock
                    >= quantityToConsume(cron[r].attendanceCount,
                                         DefaultForStudents, it.quantity)

\* C29: every AttendanceSession created by createAttendanceSession has
\* presentCount + absentCount = totalStudents = the number of submitted
\* records, and presentCount = the number of records with status "present",
\* in whatever order the records were processed.
C29_SessionCounts ==
  \A h \in ApiIds :
    (api[h].kind = "createAttendanceSession" /\ api[h].session # 0) =>
      \E s \in sessions :
        /\ s.id = api[h].session
        /\ s.totalStudents = Len(api[h].records)
        /\ s.presentCount + s.absentCount = s.totalStudents
        /\ s.presentCount =
             Cardinality({i \in 1..Len(api[h].records) :
                            api[h].records[i].status = "present"})

\* a session with one present and one absent student was created after the
\* second record of the request had been processed before the first
C29_Witness ==
  \E h \in ApiIds, s \in sessions :
    /\ api[h].kind = "createAttendanceSession" /\ api[h].session = s.id
    /\ s.presentCount = 1 /\ s.absentCount = 1
    /\ \E d \in attendanceRecords, e \in attendanceRecords :
         /\ d.op = h /\ e.op = h
         /\ d.student = api[h].records[1].student
         /\ e.student = api[h].records[2].student
         /\ e.id < d.id

\* C30: whenever a low-stock scan has completed, every admin or kitchen user
\* has, for each item the scan found at zero stock, a low-stock notification
\* of type "alert" for that item, also when the item was reported earlier
\* the same day while its stock was low but not zero.
C30_ZeroStockAlert ==
  \A k \in MonIds :
    mon[k].pc = "Done" =>
      \A i \in 1..Len(mon[k].lowStockItems) :
        mon[k].lowStockItems[i].currentStock = 0 =>
          \A u \in UserIds :
            role[u] \in {"admin", "kitchen"} =>
              \E n \in LowStockNotifications :
                /\ n.user = u
                /\ n.title = LowStockTitle(mon[k].lowStockItems[i].name)
                /\ n.type = "alert"
====
